---------------------------- MODULE Spec2Model ----------------------------
(***************************************************************************)
(* Adaptive selection and mastery tracking of the trivia quiz              *)
(* (src/app.py, src/weight_calculator.py, src/import_distractors.py).      *)
(*                                                                         *)
(* The database is the state: questions, question_stats,                   *)
(* question_attempts, user_progress; the Flask session holds               *)
(* prev_question_id.  One action per route handler.  Weights are REAL      *)
(* and are kept in millionths (25.0 is 25000000, 0.1 is 100000).           *)
(*                                                                         *)
(* Spec is the trivia quiz; MultilineSpec the progressive list quiz        *)
(* (/multiline), GeographySpec the states and capitals quiz, and           *)
(* ConcurrentSpec two request threads inside update_question_stats, one    *)
(* SQL statement per step.                                                 *)
(***************************************************************************)
EXTENDS Integers, Sequences, FiniteSets, TLC

(* ------------------------------ bounds -------------------------------- *)

\* Answers recorded in one behaviour when several questions are imported.
MaxAnswers == 5

\* Answers recorded in one behaviour when a single question is imported
\* (the log then grows past the rolling window).
MaxLogLen == 6

\* CURRENT_TIMESTAMP has a resolution of one second; the clock takes the
\* values 0..MaxClock when a single question is imported.  With several
\* questions every answer of a behaviour falls into one second: the order
\* of the timestamps shows only in a log longer than the rolling window.
MaxClock == 1

\* Recorded answers in the content of three chunks (six answers qualify
\* the questions of two chunks).
ChunksMaxAnswers == 6

\* Answers of the learner who answers every presented question correctly
\* (twelve answers master four questions).
LearnerMaxAnswers == 12

(* ------------------------- program constants -------------------------- *)

WEIGHT_INCREMENT == 100000

RECENT_ATTEMPTS_WINDOW == 5

MASTERY_MIN_ATTEMPTS == 3

\* rolling_success_rate >= 0.8, as a fraction MASTERY_RATE_NUM / MASTERY_RATE_DEN
MASTERY_RATE_NUM == 4

MASTERY_RATE_DEN == 5

INITIAL_WEIGHT == 25000000

INITIAL_SET_SIZE == 10

SET_SIZE_STEP == 10

SET_SIZE_CAP == 147

\* random.random() < 0.7, in hundredths
UNMASTERED_SHARE == 70

\* question_stats.is_mastered of a question that was never answered.
InitialMasteredFlag == FALSE

(* ------------------------------ content ------------------------------- *)

\* The imports considered: questions.chunk_number by question id.
Contents == {<<1>>, <<1, 1, 2>>}

\* A content of three chunks of one question each.
ThreeChunks == <<1, 2, 3>>

\* Every question id of some import.
Items == UNION {DOMAIN c : c \in Contents}

\* Python's None (no previous question, no question selected).
None == 0

\* Values of random.random(), in hundredths, on both sides of the 0.7 split.
Draws == {69, 70}

\* ORDER BY attempt_timestamp DESC leaves the order of rows with equal
\* timestamps to the database engine.
TieBreaks == {"rowid_asc", "rowid_desc"}

VARIABLES
    chunk_number,       \* questions.chunk_number of every imported question
    questions,          \* ids of the rows of table questions
    attempts,           \* question_attempts: per question, rows in insertion order
    stats,              \* question_stats: per question, counters, weight, is_mastered
    progress,           \* user_progress row id = 1
    prev_question_id,   \* session['prev_question_id']
    now,                \* CURRENT_TIMESTAMP, in seconds
    tieBreak,           \* how the engine orders rows of equal attempt_timestamp
    multiline_questions,  \* multiline_questions.total_items by question id
    multiline_attempts,   \* multiline_attempts: per item, rows in insertion order
    multiline_stats,      \* multiline_stats: per item, counters, weight, is_mastered
    multiline_sessions,   \* multiline_sessions: rows by id
    multiline_page,       \* the multiline.html page the browser holds
    multiline_response,   \* the last response of /multiline and /multiline_answer
    geography_attempts,   \* geography_attempts: per (state, part), rows in insertion order
    geography_stats,      \* geography_stats: per (state, part)
    prev_geography_id,    \* session['prev_geography_states_id'], ['prev_geography_capitals_id']
    pueblos_attempts,     \* pueblos_attempts: per pueblo, rows in insertion order
    pueblos_stats,        \* pueblos_stats: per pueblo, counters, weight, is_mastered
    prev_pueblo_id,       \* session['prev_pueblo_id']
    pueblos_page,         \* the geography_pueblos.html page the browser holds
    call,                 \* per request thread: its position in update_question_stats
    write_lock,           \* the connection holding the database's write lock
    requests,             \* counts of the calls of update_question_stats
    journal,              \* the rollback journal: the committed rows while a transaction is open
    page_read             \* the rows the last SELECT of a reading connection returned

\* The trivia quiz: tables questions, question_stats, question_attempts,
\* user_progress and the session.
quizVars == <<chunk_number, questions, attempts, stats, progress, prev_question_id, now, tieBreak>>

\* The progressive list quiz.
multilineVars == <<multiline_questions, multiline_attempts, multiline_stats,
                   multiline_sessions, multiline_page, multiline_response>>

\* The Pueblos Magicos quiz of the geography section.
pueblosVars == <<pueblos_attempts, pueblos_stats, prev_pueblo_id, pueblos_page>>

\* The geography quiz (states and capitals, pueblos).
geographyVars == <<geography_attempts, geography_stats, prev_geography_id, pueblosVars>>

\* Request threads inside update_question_stats.
threadVars == <<call, write_lock, requests, journal, page_read>>

vars == <<quizVars, multilineVars, geographyVars, threadVars>>

(* ------------------------------ helpers ------------------------------- *)

Min(a, b) == IF a < b THEN a ELSE b

RECURSIVE SumOver(_, _)
SumOver(S, f) ==
    IF S = {} THEN 0
    ELSE LET x == CHOOSE y \in S : TRUE
         IN  f[x] + SumOver(S \ {x}, f)

TotalAttempts == SumOver(questions, [q \in questions |-> Len(attempts[q])])

\* The bound on the answers of one behaviour.
AnswerBound ==
    IF Cardinality(DOMAIN chunk_number) = 1 THEN MaxLogLen
    ELSE IF chunk_number = ThreeChunks THEN ChunksMaxAnswers
    ELSE MaxAnswers

\* The bound on the clock.
ClockBound == IF Cardinality(DOMAIN chunk_number) = 1 THEN MaxClock ELSE 0

(* ----------------------- weight_calculator.py ------------------------- *)

\* Position i of log comes before position j in
\* ORDER BY attempt_timestamp DESC.
Before(log, i, j) ==
    \/ log[i].ts > log[j].ts
    \/ /\ log[i].ts = log[j].ts
       /\ IF tieBreak = "rowid_asc" THEN i < j ELSE i > j

\* The rows (positions of log) returned by
\* SELECT ... ORDER BY attempt_timestamp DESC LIMIT window_size.
RecentAttempts(log, window_size) ==
    IF Len(log) <= window_size
    THEN DOMAIN log
    ELSE {i \in DOMAIN log :
             Cardinality({j \in DOMAIN log : Before(log, j, i)}) < window_size}

\* get_rolling_success_rate: the rate is the fraction correct / total
\* (0.0 when there is no attempt), total is the sample count.
RollingOf(log) ==
    LET recent_attempts == RecentAttempts(log, RECENT_ATTEMPTS_WINDOW)
    IN  IF recent_attempts = {}
        THEN [correct |-> 0, total |-> 0]
        ELSE [correct |-> Cardinality({i \in recent_attempts : log[i].ok}),
              total   |-> Cardinality(recent_attempts)]

get_rolling_success_rate(q) == RollingOf(attempts[q])

\* rolling_success_rate >= 0.8 on the fraction correct / total.
RateAtLeastThreshold(rr) ==
    /\ rr.total > 0
    /\ MASTERY_RATE_DEN * rr.correct >= MASTERY_RATE_NUM * rr.total

(* ------------------------------- app.py ------------------------------- *)

\* Mutant of MasteredOf: the rate must exceed the threshold.
MasteredOf_StrictRate(log) ==
    LET rr == RollingOf(log)
    IN  /\ rr.total >= MASTERY_MIN_ATTEMPTS
        /\ MASTERY_RATE_DEN * rr.correct > MASTERY_RATE_NUM * rr.total

\* is_question_mastered on a log: attempts >= 3 and rolling_success_rate >= 0.8.
MasteredOf(log) ==
    LET rr == RollingOf(log)
    IN  rr.total >= MASTERY_MIN_ATTEMPTS /\ RateAtLeastThreshold(rr)

is_question_mastered(q) == MasteredOf(attempts[q])

get_total_chunks ==
    LET present == {chunk_number[q] : q \in questions}
    IN  IF present = {} THEN 1
        ELSE CHOOSE c \in present : \A d \in present : d <= c

\* Mutant of BumpedSiblings: the UPDATE matches the other category.
BumpedSiblings_OtherCategory(question_id, max_chunk, is_mastered) ==
    {s \in questions :
        /\ chunk_number[s] <= max_chunk
        /\ s # question_id
        /\ stats[s].is_mastered # is_mastered}

\* Mutant of BumpedSiblings: the UPDATE has no chunk condition.
BumpedSiblings_AnyChunk(question_id, max_chunk, is_mastered) ==
    {s \in questions :
        /\ s # question_id
        /\ stats[s].is_mastered = is_mastered}

\* The rows of the sibling UPDATE of update_question_stats.
BumpedSiblings(question_id, max_chunk, is_mastered) ==
    {s \in questions :
        /\ chunk_number[s] <= max_chunk
        /\ s # question_id
        /\ stats[s].is_mastered = is_mastered}

\* Mutant of AnsweredWeight: a correct answer lowers the weight by the
\* initial weight instead of resetting it.
AnsweredWeight_Lowered(is_correct, current_weight) ==
    IF is_correct THEN current_weight - INITIAL_WEIGHT ELSE current_weight

\* Mutant of AnsweredWeight: an incorrect answer halves the weight.
AnsweredWeight_HalvedOnMiss(is_correct, current_weight) ==
    IF is_correct THEN 0 ELSE current_weight \div 2

\* The weight update_question_stats stores for the answered question.
AnsweredWeight(is_correct, current_weight) ==
    IF is_correct THEN 0 ELSE current_weight

\* Mutant of update_question_stats: the rows of the question that have left
\* its rolling window are deleted.
update_question_stats_PrunesLog(question_id, is_correct) ==
    LET newLog       == Append(attempts[question_id], [ok |-> is_correct, ts |-> now])
        kept         == SubSeq(newLog, Len(newLog) - Min(Len(newLog), RECENT_ATTEMPTS_WINDOW) + 1,
                               Len(newLog))
        result       == stats[question_id]
        is_mastered  == MasteredOf(kept)
        bumped       == IF is_correct
                        THEN BumpedSiblings(question_id, progress.max_unlocked_chunk,
                                            is_mastered)
                        ELSE {}
    IN  /\ attempts' = [attempts EXCEPT ![question_id] = kept]
        /\ stats' = [s \in DOMAIN stats |->
                IF s = question_id
                THEN [times_answered |-> result.times_answered + 1,
                      times_correct  |-> result.times_correct + (IF is_correct THEN 1 ELSE 0),
                      weight         |-> AnsweredWeight(is_correct, result.weight),
                      is_mastered    |-> is_mastered]
                ELSE IF s \in bumped
                THEN [stats[s] EXCEPT !.weight = @ + WEIGHT_INCREMENT]
                ELSE stats[s]]

\* Mutant of update_question_stats: the mastery stored and used for the
\* category is computed before the attempt is inserted.
update_question_stats_StaleMastery(question_id, is_correct) ==
    LET newLog       == Append(attempts[question_id], [ok |-> is_correct, ts |-> now])
        result       == stats[question_id]
        is_mastered  == MasteredOf(attempts[question_id])
        bumped       == IF is_correct
                        THEN BumpedSiblings(question_id, progress.max_unlocked_chunk,
                                            is_mastered)
                        ELSE {}
    IN  /\ attempts' = [attempts EXCEPT ![question_id] = newLog]
        /\ stats' = [s \in DOMAIN stats |->
                IF s = question_id
                THEN [times_answered |-> result.times_answered + 1,
                      times_correct  |-> result.times_correct + (IF is_correct THEN 1 ELSE 0),
                      weight         |-> AnsweredWeight(is_correct, result.weight),
                      is_mastered    |-> is_mastered]
                ELSE IF s \in bumped
                THEN [stats[s] EXCEPT !.weight = @ + WEIGHT_INCREMENT]
                ELSE stats[s]]

\* Mutant of update_question_stats: times_correct is incremented whatever
\* the outcome.
update_question_stats_CountsAllCorrect(question_id, is_correct) ==
    LET newLog       == Append(attempts[question_id], [ok |-> is_correct, ts |-> now])
        result       == stats[question_id]
        is_mastered  == MasteredOf(newLog)
        bumped       == IF is_correct
                        THEN BumpedSiblings(question_id, progress.max_unlocked_chunk,
                                            is_mastered)
                        ELSE {}
    IN  /\ attempts' = [attempts EXCEPT ![question_id] = newLog]
        /\ stats' = [s \in DOMAIN stats |->
                IF s = question_id
                THEN [times_answered |-> result.times_answered + 1,
                      times_correct  |-> result.times_correct + 1,
                      weight         |-> AnsweredWeight(is_correct, result.weight),
                      is_mastered    |-> is_mastered]
                ELSE IF s \in bumped
                THEN [stats[s] EXCEPT !.weight = @ + WEIGHT_INCREMENT]
                ELSE stats[s]]

\* update_question_stats(question_id, is_correct) for an existing question.
update_question_stats(question_id, is_correct) ==
    LET newLog       == Append(attempts[question_id], [ok |-> is_correct, ts |-> now])
        result       == stats[question_id]
        times_answered == result.times_answered + 1
        times_correct  == result.times_correct + (IF is_correct THEN 1 ELSE 0)
        max_chunk    == progress.max_unlocked_chunk
        is_mastered  == MasteredOf(newLog)
        bumped       == IF is_correct
                        THEN BumpedSiblings(question_id, max_chunk, is_mastered)
                        ELSE {}
        weight       == AnsweredWeight(is_correct, result.weight)
    IN  /\ attempts' = [attempts EXCEPT ![question_id] = newLog]
        /\ stats' = [s \in DOMAIN stats |->
                IF s = question_id
                THEN [times_answered |-> times_answered,
                      times_correct  |-> times_correct,
                      weight         |-> weight,
                      is_mastered    |-> is_mastered]
                ELSE IF s \in bumped
                THEN [stats[s] EXCEPT !.weight = @ + WEIGHT_INCREMENT]
                ELSE stats[s]]

\* The questions get_current_question_set counts as qualified.
QualifiedQuestions(max_chunk) ==
    {q \in questions :
        /\ chunk_number[q] <= max_chunk
        /\ stats[q].times_answered >= MASTERY_MIN_ATTEMPTS
        /\ RateAtLeastThreshold(get_rolling_success_rate(q))}

\* Mutant of get_current_question_set: one unqualified question is tolerated.
get_current_question_set_AllButOne(prog) ==
    LET max_chunk == prog.max_unlocked_chunk
        total_in_set == Cardinality({q \in questions : chunk_number[q] <= max_chunk})
    IN  IF Cardinality(QualifiedQuestions(max_chunk)) >= total_in_set - 1
           /\ max_chunk < get_total_chunks
        THEN [max_unlocked_chunk |-> max_chunk + 1,
              questions_in_current_set |->
                  Min(prog.questions_in_current_set + SET_SIZE_STEP, SET_SIZE_CAP)]
        ELSE prog

\* Mutant of get_current_question_set: the chunk is locked again when a
\* question of the set is no longer qualified.
get_current_question_set_Relock(prog) ==
    LET max_chunk == prog.max_unlocked_chunk
        total_in_set == Cardinality({q \in questions : chunk_number[q] <= max_chunk})
    IN  IF Cardinality(QualifiedQuestions(max_chunk)) = total_in_set
        THEN IF max_chunk < get_total_chunks
             THEN [max_unlocked_chunk |-> max_chunk + 1,
                   questions_in_current_set |->
                       Min(prog.questions_in_current_set + SET_SIZE_STEP, SET_SIZE_CAP)]
             ELSE prog
        ELSE IF max_chunk > 1
             THEN [max_unlocked_chunk |-> max_chunk - 1,
                   questions_in_current_set |-> prog.questions_in_current_set - SET_SIZE_STEP]
             ELSE prog

\* Mutant of get_current_question_set: the next chunk is unlocked even when
\* no higher chunk exists.
get_current_question_set_PastLast(prog) ==
    LET max_chunk == prog.max_unlocked_chunk
        total_in_set == Cardinality({q \in questions : chunk_number[q] <= max_chunk})
    IN  IF Cardinality(QualifiedQuestions(max_chunk)) = total_in_set
        THEN [max_unlocked_chunk |-> max_chunk + 1,
              questions_in_current_set |->
                  Min(prog.questions_in_current_set + SET_SIZE_STEP, SET_SIZE_CAP)]
        ELSE prog

\* get_current_question_set: the user_progress row it leaves behind,
\* given the row it reads.
get_current_question_set(prog) ==
    LET max_chunk == prog.max_unlocked_chunk
        current_set_size == prog.questions_in_current_set
        all_questions == {q \in questions : chunk_number[q] <= max_chunk}
        qualified_questions == Cardinality(QualifiedQuestions(max_chunk))
        total_in_set == Cardinality(all_questions)
        max_available_chunk == get_total_chunks
    IN  IF qualified_questions = total_in_set /\ max_chunk < max_available_chunk
        THEN [max_unlocked_chunk |-> max_chunk + 1,
              questions_in_current_set |-> Min(current_set_size + SET_SIZE_STEP, SET_SIZE_CAP)]
        ELSE prog

\* Mutant of WeightedChoices: random.choices is called whatever the weights.
WeightedChoices_NoFallback(bucket) ==
    {q \in bucket : stats[q].weight > 0}

\* Mutant of WeightedChoices: the choice is uniform whatever the weights.
WeightedChoices_Uniform(bucket) == bucket

\* random.choice / random.choices over a bucket: the possible results.
WeightedChoices(bucket) ==
    IF SumOver(bucket, [q \in bucket |-> stats[q].weight]) = 0
    THEN bucket
    ELSE {q \in bucket : stats[q].weight > 0}

\* get_unmastered_question: the possible results; {} stands for None.
get_unmastered_question(available_questions) ==
    WeightedChoices({q \in available_questions : ~is_question_mastered(q)})

\* get_mastered_question: the possible results; {} stands for None.
get_mastered_question(available_questions) ==
    WeightedChoices({q \in available_questions : is_question_mastered(q)})

\* Mutant of CandidateQuestions: the SELECT has no chunk condition.
CandidateQuestions_AllChunks(max_chunk, exclude_question_id) ==
    IF exclude_question_id # None
    THEN questions \ {exclude_question_id}
    ELSE questions

\* The list get_weighted_question selects from, after the exclusion filter.
CandidateQuestions(max_chunk, exclude_question_id) ==
    LET unlocked == {q \in questions : chunk_number[q] <= max_chunk}
    IN  IF exclude_question_id # None
        THEN unlocked \ {exclude_question_id}
        ELSE unlocked

\* Mutant of get_weighted_question: the draw prefers the mastered bucket
\* below 0.7.
get_weighted_question_Swapped(max_chunk, exclude_question_id, r) ==
    LET cand == CandidateQuestions(max_chunk, exclude_question_id)
    IN  IF cand = {} THEN {}
        ELSE IF r >= UNMASTERED_SHARE
        THEN IF get_unmastered_question(cand) # {}
             THEN get_unmastered_question(cand)
             ELSE get_mastered_question(cand)
        ELSE IF get_mastered_question(cand) # {}
             THEN get_mastered_question(cand)
             ELSE get_unmastered_question(cand)

\* get_weighted_question after its call of get_current_question_set:
\* the possible results for the draw r; {} stands for None.
get_weighted_question(max_chunk, exclude_question_id, r) ==
    LET cand == CandidateQuestions(max_chunk, exclude_question_id)
    IN  IF cand = {} THEN {}
        ELSE IF r < UNMASTERED_SHARE
        THEN IF get_unmastered_question(cand) # {}
             THEN get_unmastered_question(cand)
             ELSE get_mastered_question(cand)
        ELSE IF get_mastered_question(cand) # {}
             THEN get_mastered_question(cand)
             ELSE get_unmastered_question(cand)

(* ------------------------------ actions ------------------------------- *)

\* The row import_distractors_csv inserts into question_stats.
InitialStats ==
    [times_answered |-> 0, times_correct |-> 0,
     weight |-> INITIAL_WEIGHT, is_mastered |-> InitialMasteredFlag]

\* The state import_distractors_csv leaves: every question with default
\* statistics, user_progress (1, 10), no attempt; a fresh session.
QuizImported ==
    /\ chunk_number \in Contents
    /\ questions = DOMAIN chunk_number
    /\ attempts = [q \in questions |-> <<>>]
    /\ stats = [q \in questions |-> InitialStats]
    /\ progress = [max_unlocked_chunk |-> 1, questions_in_current_set |-> INITIAL_SET_SIZE]
    /\ prev_question_id = None
    /\ now = 0
    /\ tieBreak \in TieBreaks

\* One second passes.
Tick ==
    /\ now < ClockBound
    /\ now' = now + 1
    /\ UNCHANGED <<chunk_number, questions, attempts, stats, progress, prev_question_id, tieBreak,
                 multilineVars, geographyVars, threadVars>>

\* POST /answer for an existing question.
record_answer(question_id, is_correct) ==
    /\ question_id \in questions
    /\ TotalAttempts < AnswerBound
    /\ update_question_stats(question_id, is_correct)
    /\ UNCHANGED <<chunk_number, questions, progress, prev_question_id, now, tieBreak,
                 multilineVars, geographyVars, threadVars>>

\* The HTTP status of POST /answer: update_question_stats subscripts the
\* statistics row it selected, which is None for an id without a row, and
\* the TypeError leaves the handler (no error handler is registered).
record_answer_status(question_id) ==
    IF question_id \in questions THEN 200 ELSE 500

\* POST /answer for an id without rows: the attempt is inserted, the
\* TypeError is raised before conn.commit(), and the connection is dropped
\* with its transaction rolled back.
record_answer_unknown(question_id) ==
    /\ question_id \notin questions
    /\ record_answer_status(question_id) = 500
    /\ UNCHANGED vars

\* The user_progress row GET / leaves: quiz calls get_current_question_set,
\* then get_weighted_question calls it again.
ProgressAfterQuiz == get_current_question_set(get_current_question_set(progress))

\* What get_weighted_question(exclude_question_id=prev_question_id) can
\* return for the draw r within GET /; {} stands for None.
QuizResults(r) ==
    get_weighted_question(ProgressAfterQuiz.max_unlocked_chunk, prev_question_id, r)

\* GET / with random.random() = r / 100 selecting question_data (None: the
\* response is "No questions available!", 500).
quiz(r, question_data) ==
    /\ progress' = ProgressAfterQuiz
    /\ IF question_data = None
       THEN /\ QuizResults(r) = {}
            /\ prev_question_id' = prev_question_id
       ELSE /\ question_data \in QuizResults(r)
            /\ prev_question_id' = question_data
    /\ UNCHANGED <<chunk_number, questions, attempts, stats, now, tieBreak,
                 multilineVars, geographyVars, threadVars>>

\* GET /progress: one call of get_current_question_set.
show_progress ==
    /\ progress' = get_current_question_set(progress)
    /\ UNCHANGED <<chunk_number, questions, attempts, stats, prev_question_id, now, tieBreak,
                 multilineVars, geographyVars, threadVars>>

\* GET /stats: reads only.
show_stats ==
    UNCHANGED vars

\* SELECT COUNT(*) FROM questions WHERE chunk_number = that of question_id
QuestionsInChunkOf(question_id) ==
    Cardinality({q \in questions : chunk_number[q] = chunk_number[question_id]})

\* The HTTP status of POST /delete_question.
delete_question_status(question_id) ==
    IF question_id \notin questions THEN 404
    ELSE IF QuestionsInChunkOf(question_id) <= 1 THEN 400
    ELSE 200

\* Mutant of delete_question: the last question of a chunk is deleted too.
delete_question_NoChunkCheck(question_id) ==
    IF question_id \notin questions
    THEN UNCHANGED vars
    ELSE /\ questions' = questions \ {question_id}
         /\ attempts' = [q \in questions \ {question_id} |-> attempts[q]]
         /\ stats' = [q \in questions \ {question_id} |-> stats[q]]
         /\ UNCHANGED <<chunk_number, progress, prev_question_id, now, tieBreak,
                        multilineVars, geographyVars, threadVars>>

\* POST /delete_question: 404 for an id without a row, 400 when the
\* question is the last one of its chunk; else its attempts, its
\* statistics and the question are deleted.
delete_question(question_id) ==
    IF delete_question_status(question_id) # 200
    THEN UNCHANGED vars
    ELSE /\ questions' = questions \ {question_id}
         /\ attempts' = [q \in questions \ {question_id} |-> attempts[q]]
         /\ stats' = [q \in questions \ {question_id} |-> stats[q]]
         /\ UNCHANGED <<chunk_number, progress, prev_question_id, now, tieBreak,
                        multilineVars, geographyVars, threadVars>>

Next ==
    \/ Tick
    \/ \E question_id \in Items, is_correct \in BOOLEAN :
           record_answer(question_id, is_correct)
    \/ \E question_id \in Items : record_answer_unknown(question_id)
    \/ \E r \in Draws, question_data \in Items \cup {None} :
           quiz(r, question_data)
    \/ show_progress
    \/ show_stats
    \/ \E question_id \in Items : delete_question(question_id)

(* ------------------- progressive list quiz (app.py) ------------------- *)

\* Answers posted to /multiline_answer in one behaviour.
MultilineMaxAnswers == 5

\* Rows of multiline_sessions in one behaviour.
MultilineMaxSessions == 2

\* Forms posted a second time in one behaviour.
MultilineMaxResubmissions == 1

\* The list sizes calculate_required_correct is evaluated on.
MaxListSize == 20

\* The contents considered: multiline_questions.total_items by question id.
MultilineContents == {<<2>>, <<6>>}

\* Mutant of calculate_required_correct: 80% is truncated.
calculate_required_correct_Truncated(total_items) ==
    IF total_items <= 5
    THEN total_items
    ELSE (8 * total_items) \div 10

\* calculate_required_correct: int(total_items * 0.8 + 0.5) for lists of
\* more than 5 items.
calculate_required_correct(total_items) ==
    IF total_items <= 5
    THEN total_items
    ELSE (8 * total_items + 5) \div 10

\* The rows of multiline_questions for lists of the given sizes.
MultilineQuestionRows(sizes) ==
    [q \in DOMAIN sizes |->
        [total_items |-> sizes[q],
         required_correct |-> calculate_required_correct(sizes[q])]]

\* The row of multiline_stats of an item that was never answered.
InitialMultilineStats ==
    [times_shown |-> 0, times_correct |-> 0,
     weight |-> INITIAL_WEIGHT, is_mastered |-> InitialMasteredFlag]

RECURSIVE ItemsBefore(_)
\* The number of multiline_items rows of the questions before question_id
\* (item ids are given in the order of the questions).
ItemsBefore(question_id) ==
    IF question_id = 1 THEN 0
    ELSE multiline_questions[question_id - 1].total_items + ItemsBefore(question_id - 1)

\* SELECT id FROM multiline_items WHERE question_id = ?
MultilineItemsOf(question_id) ==
    {i \in 1..(ItemsBefore(question_id) + multiline_questions[question_id].total_items) :
        i > ItemsBefore(question_id)}

\* The ids of table multiline_items.
MultilineItemIds == UNION {MultilineItemsOf(q) : q \in DOMAIN multiline_questions}

\* SELECT question_id FROM multiline_items WHERE id = ?
MultilineQuestionOf(item_id) ==
    CHOOSE q \in DOMAIN multiline_questions : item_id \in MultilineItemsOf(q)

\* The elements of a list.
Range(list) == {list[i] : i \in DOMAIN list}

\* is_multiline_item_mastered on a log: 3 or more attempts in the window
\* and a rolling success rate of 0.8 or more.
is_multiline_item_mastered(log) ==
    LET rr == RollingOf(log)
    IN  rr.total >= MASTERY_MIN_ATTEMPTS /\ RateAtLeastThreshold(rr)

\* update_multiline_stats(item_id, is_correct) for an existing item.
update_multiline_stats(item_id, is_correct) ==
    LET newLog      == Append(multiline_attempts[item_id], [ok |-> is_correct, ts |-> now])
        result      == multiline_stats[item_id]
        times_shown == result.times_shown + 1
        times_correct == result.times_correct + (IF is_correct THEN 1 ELSE 0)
        is_mastered == is_multiline_item_mastered(newLog)
        question_id == MultilineQuestionOf(item_id)
        bumped      == IF is_correct
                       THEN {s \in MultilineItemsOf(question_id) \ {item_id} :
                                multiline_stats[s].is_mastered = is_mastered}
                       ELSE {}
        weight      == IF is_correct THEN 0 ELSE result.weight
    IN  /\ multiline_attempts' = [multiline_attempts EXCEPT ![item_id] = newLog]
        /\ multiline_stats' = [s \in DOMAIN multiline_stats |->
                IF s = item_id
                THEN [times_shown   |-> times_shown,
                      times_correct |-> times_correct,
                      weight        |-> weight,
                      is_mastered   |-> is_mastered]
                ELSE IF s \in bumped
                THEN [multiline_stats[s] EXCEPT !.weight = @ + WEIGHT_INCREMENT]
                ELSE multiline_stats[s]]

\* AVG(ms.is_mastered) >= 0.8 over the items of a question.
MasteryRatioAtLeastThreshold(question_id) ==
    MASTERY_RATE_DEN *
        Cardinality({i \in MultilineItemsOf(question_id) : multiline_stats[i].is_mastered})
    >= MASTERY_RATE_NUM * Cardinality(MultilineItemsOf(question_id))

\* AVG(ms.weight) = 0 over the items of a question.
AvgWeightIsZero(question_id) ==
    \A i \in MultilineItemsOf(question_id) : multiline_stats[i].weight = 0

\* random.choice / random.choices over a bucket of questions by avg_weight.
MultilineQuestionChoices(bucket) ==
    IF \A q \in bucket : AvgWeightIsZero(q)
    THEN bucket
    ELSE {q \in bucket : ~AvgWeightIsZero(q)}

\* get_weighted_multiline_question: the possible results for the draw r;
\* {} stands for None.  The JOIN drops the questions without items.
get_weighted_multiline_question(exclude_question_id, r) ==
    LET joined == {q \in DOMAIN multiline_questions : MultilineItemsOf(q) # {}}
        candidates == IF exclude_question_id # None
                      THEN joined \ {exclude_question_id}
                      ELSE joined
        unmastered == {q \in candidates : ~MasteryRatioAtLeastThreshold(q)}
        mastered   == {q \in candidates : MasteryRatioAtLeastThreshold(q)}
    IN  IF candidates = {} THEN {}
        ELSE IF r < UNMASTERED_SHARE
        THEN IF unmastered # {}
             THEN MultilineQuestionChoices(unmastered)
             ELSE MultilineQuestionChoices(mastered)
        ELSE IF mastered # {}
             THEN MultilineQuestionChoices(mastered)
             ELSE MultilineQuestionChoices(unmastered)

\* No multiline.html page in the browser.
NoPage == [session_id |-> None, correct_item_id |-> None, answered |-> FALSE]

\* A response: the HTTP status, the kind of body, and the fields of the
\* JSON body of /multiline_answer.
Response(status, body, is_correct, completed, score, required) ==
    [status |-> status, body |-> body, is_correct |-> is_correct,
     completed |-> completed, score |-> score, required |-> required]

\* No request was answered yet.
NoResponse == Response(0, "none", FALSE, FALSE, 0, 0)

\* Mutant of MultilineAvailableItems: the answered items are not filtered out.
MultilineAvailableItems_Unfiltered(session) ==
    MultilineItemsOf(session.question_id)

\* multiline_quiz: the items of the session's question that are not in its
\* items_answered (a comma-separated list of ids in the table).
MultilineAvailableItems(session) ==
    MultilineItemsOf(session.question_id) \ Range(session.items_answered)

\* random.choice / random.choices over the available items by weight.
MultilineItemChoices(available_items) ==
    IF SumOver(available_items, [i \in available_items |-> multiline_stats[i].weight]) = 0
    THEN available_items
    ELSE {i \in available_items : multiline_stats[i].weight > 0}

\* Mutant of SessionAfterAnswer: a wrong answer resets the counter and
\* leaves the session open.
SessionAfterAnswer_WrongKeepsOpen(session, item_id, is_correct, required_correct) ==
    LET items_answered == Append(session.items_answered, item_id)
        consecutive_correct == IF is_correct THEN session.consecutive_correct + 1 ELSE 0
    IN  [question_id         |-> session.question_id,
         items_answered      |-> items_answered,
         consecutive_correct |-> consecutive_correct,
         completed           |-> IF is_correct /\ consecutive_correct >= required_correct
                                 THEN TRUE
                                 ELSE session.completed]

\* Mutant of SessionAfterAnswer: reaching the required count does not end
\* the session.
SessionAfterAnswer_NoThreshold(session, item_id, is_correct, required_correct) ==
    LET items_answered == Append(session.items_answered, item_id)
        consecutive_correct == session.consecutive_correct + (IF is_correct THEN 1 ELSE 0)
    IN  [question_id         |-> session.question_id,
         items_answered      |-> items_answered,
         consecutive_correct |-> consecutive_correct,
         completed           |-> IF ~is_correct THEN TRUE ELSE session.completed]

\* record_multiline_answer: the multiline_sessions row it stores.  Only the
\* two UPDATEs that end the session write the column completed.
SessionAfterAnswer(session, item_id, is_correct, required_correct) ==
    LET items_answered == Append(session.items_answered, item_id)
        consecutive_correct == session.consecutive_correct + (IF is_correct THEN 1 ELSE 0)
    IN  [question_id         |-> session.question_id,
         items_answered      |-> items_answered,
         consecutive_correct |-> consecutive_correct,
         completed           |-> IF ~is_correct \/ consecutive_correct >= required_correct
                                 THEN TRUE
                                 ELSE session.completed]

\* record_multiline_answer: its JSON body for a session that was found.
AnswerResponse(session, is_correct, required_correct) ==
    LET consecutive_correct == session.consecutive_correct + (IF is_correct THEN 1 ELSE 0)
    IN  Response(200, "json", is_correct,
                 ~is_correct \/ consecutive_correct >= required_correct,
                 consecutive_correct, required_correct)

\* The number of rows of multiline_attempts.
MultilineTotalAttempts ==
    SumOver(DOMAIN multiline_attempts,
            [i \in DOMAIN multiline_attempts |-> Len(multiline_attempts[i])])

\* A list of more than 5 items (its threshold is below its size) is played
\* in one session and without resubmitted forms; the lists of up to 5 items
\* are played in several sessions and with resubmitted forms.
LongListImported == \E q \in DOMAIN multiline_questions : multiline_questions[q].total_items > 5

\* The bound on the rows of multiline_sessions.
SessionBound == IF LongListImported THEN 1 ELSE MultilineMaxSessions

\* The bound on the forms posted a second time.
ResubmissionBound == IF LongListImported THEN 0 ELSE MultilineMaxResubmissions

\* multiline_quiz from "Get question details" on, for the session
\* session_id of the rows sessions: the session is marked completed when no
\* item is available, else an available item is drawn and rendered.
MultilineTurn(session_id, sessions) ==
    LET available_items == MultilineAvailableItems(sessions[session_id])
    IN  IF available_items = {}
        THEN /\ multiline_sessions' = [sessions EXCEPT ![session_id].completed = TRUE]
             /\ multiline_page' = NoPage
             /\ multiline_response' = Response(200, "text", FALSE, FALSE, 0, 0)
        ELSE \E correct_item \in MultilineItemChoices(available_items) :
             /\ multiline_sessions' = sessions
             /\ multiline_page' = [session_id |-> session_id,
                                   correct_item_id |-> correct_item,
                                   answered |-> FALSE]
             /\ multiline_response' = Response(200, "page", FALSE, FALSE, 0, 0)

\* GET /multiline?session=session_id (None: no parameter) with
\* random.random() = r / 100.
multiline_quiz(session_id, r) ==
    /\ IF /\ session_id # None
          /\ session_id \in DOMAIN multiline_sessions
          /\ ~multiline_sessions[session_id].completed
       THEN MultilineTurn(session_id, multiline_sessions)
       ELSE IF get_weighted_multiline_question(None, r) = {}
       THEN /\ multiline_response' = Response(500, "text", FALSE, FALSE, 0, 0)
            /\ multiline_page' = NoPage
            /\ UNCHANGED multiline_sessions
       ELSE /\ Len(multiline_sessions) < SessionBound
            /\ \E question_data \in get_weighted_multiline_question(None, r) :
                   LET created == Append(multiline_sessions,
                                         [question_id         |-> question_data,
                                          items_answered      |-> <<>>,
                                          consecutive_correct |-> 0,
                                          completed           |-> FALSE])
                   IN  MultilineTurn(Len(created), created)
    /\ UNCHANGED <<multiline_questions, multiline_attempts, multiline_stats,
                   quizVars, geographyVars, threadVars>>

\* POST /multiline_answer for an existing item: the item's statistics are
\* updated and committed, then the session is looked up (404 when it is
\* missing) and updated, whether or not it is completed.
record_multiline_answer(session_id, item_id, is_correct) ==
    /\ item_id \in MultilineItemIds
    /\ MultilineTotalAttempts < MultilineMaxAnswers
    /\ update_multiline_stats(item_id, is_correct)
    /\ IF session_id \notin DOMAIN multiline_sessions
       THEN /\ multiline_response' = Response(404, "json", FALSE, FALSE, 0, 0)
            /\ UNCHANGED multiline_sessions
       ELSE LET session == multiline_sessions[session_id]
                required_correct ==
                    multiline_questions[session.question_id].required_correct
            IN  /\ multiline_sessions' =
                       [multiline_sessions EXCEPT ![session_id] =
                           SessionAfterAnswer(session, item_id, is_correct, required_correct)]
                /\ multiline_response' = AnswerResponse(session, is_correct, required_correct)
    /\ multiline_page' =
           IF multiline_page.session_id = session_id
              /\ multiline_page.correct_item_id = item_id
           THEN [multiline_page EXCEPT !.answered = TRUE]
           ELSE multiline_page
    /\ UNCHANGED <<multiline_questions, quizVars, geographyVars, threadVars>>

\* The number of answers that were posted for an item already in the list
\* of their session.
Resubmissions ==
    SumOver(DOMAIN multiline_sessions,
            [k \in DOMAIN multiline_sessions |->
                Len(multiline_sessions[k].items_answered)
                    - Cardinality(Range(multiline_sessions[k].items_answered))])

\* The browser posts the form of the page it holds: once, or again (the
\* form is resubmitted).
SubmitPage(is_correct) ==
    /\ multiline_page # NoPage
    /\ multiline_page.answered => Resubmissions < ResubmissionBound
    /\ record_multiline_answer(multiline_page.session_id,
                               multiline_page.correct_item_id, is_correct)

\* A database without trivia questions, and a fresh session.
QuizEmpty ==
    /\ chunk_number = <<>>
    /\ questions = {}
    /\ attempts = <<>>
    /\ stats = <<>>
    /\ progress = [max_unlocked_chunk |-> 1, questions_in_current_set |-> INITIAL_SET_SIZE]
    /\ prev_question_id = None
    /\ now = 0
    /\ tieBreak \in TieBreaks

\* A database without lists.
MultilineEmpty ==
    /\ multiline_questions = <<>>
    /\ multiline_attempts = <<>>
    /\ multiline_stats = <<>>
    /\ multiline_sessions = <<>>
    /\ multiline_page = NoPage
    /\ multiline_response = NoResponse

\* The lists of one content, every item with default statistics, no
\* session.
MultilineImported ==
    /\ multiline_questions \in {MultilineQuestionRows(sizes) : sizes \in MultilineContents}
    /\ multiline_attempts = [i \in MultilineItemIds |-> <<>>]
    /\ multiline_stats = [i \in MultilineItemIds |-> InitialMultilineStats]
    /\ multiline_sessions = <<>>
    /\ multiline_page = NoPage
    /\ multiline_response = NoResponse

(* ------------------------ geography quiz (app.py) --------------------- *)

\* Answers posted to /geography_answer in one behaviour.
GeographyMaxAnswers == 3

\* The ids of table geography_questions.
GeographyIds == {1, 2}

\* geography_stats.part: 1 is the state of a map number, 2 is its capital.
Parts == {1, 2}

\* The row of geography_stats of a state and part that was never answered.
InitialGeographyStats ==
    [times_answered |-> 0, times_correct |-> 0,
     weight |-> INITIAL_WEIGHT, is_mastered |-> InitialMasteredFlag]

\* is_geography_mastered(geography_id, part)
is_geography_mastered(geography_id, part) ==
    LET rr == RollingOf(geography_attempts[<<geography_id, part>>])
    IN  rr.total >= MASTERY_MIN_ATTEMPTS /\ RateAtLeastThreshold(rr)

\* update_geography_stats(geography_id, part, is_correct) for an existing
\* state: the attempt is logged and the statistics of (state, part) are
\* updated at once.
update_geography_stats(geography_id, part, is_correct) ==
    LET key          == <<geography_id, part>>
        newLog       == Append(geography_attempts[key], [ok |-> is_correct, ts |-> now])
        result       == geography_stats[key]
        times_answered == result.times_answered + 1
        times_correct  == result.times_correct + (IF is_correct THEN 1 ELSE 0)
        rr           == RollingOf(newLog)
        is_mastered  == rr.total >= MASTERY_MIN_ATTEMPTS /\ RateAtLeastThreshold(rr)
        bumped       == IF is_correct
                        THEN {<<g, part>> : g \in {h \in GeographyIds \ {geography_id} :
                                 geography_stats[<<h, part>>].is_mastered = is_mastered}}
                        ELSE {}
        weight       == IF is_correct THEN 0 ELSE result.weight
    IN  /\ geography_attempts' = [geography_attempts EXCEPT ![key] = newLog]
        /\ geography_stats' = [k \in DOMAIN geography_stats |->
                IF k = key
                THEN [times_answered |-> times_answered,
                      times_correct  |-> times_correct,
                      weight         |-> weight,
                      is_mastered    |-> is_mastered]
                ELSE IF k \in bumped
                THEN [geography_stats[k] EXCEPT !.weight = @ + WEIGHT_INCREMENT]
                ELSE geography_stats[k]]

\* random.choice / random.choices over a bucket of states by the weight of
\* the part.
GeographyChoices(bucket, part) ==
    IF SumOver(bucket, [g \in bucket |-> geography_stats[<<g, part>>].weight]) = 0
    THEN bucket
    ELSE {g \in bucket : geography_stats[<<g, part>>].weight > 0}

\* get_weighted_geography_question: the possible results for the draw r;
\* {} stands for None.
get_weighted_geography_question(part, exclude_geography_id, r) ==
    LET geographies == IF exclude_geography_id # None
                       THEN GeographyIds \ {exclude_geography_id}
                       ELSE GeographyIds
        unmastered == {g \in geographies : ~is_geography_mastered(g, part)}
        mastered   == {g \in geographies : is_geography_mastered(g, part)}
    IN  IF geographies = {} THEN {}
        ELSE IF r < UNMASTERED_SHARE
        THEN IF unmastered # {}
             THEN GeographyChoices(unmastered, part)
             ELSE GeographyChoices(mastered, part)
        ELSE IF mastered # {}
             THEN GeographyChoices(mastered, part)
             ELSE GeographyChoices(unmastered, part)

\* GET /geography_states (part 1) and GET /geography_capitals (part 2)
\* with random.random() = r / 100: a state is selected and remembered in
\* the session; 500 when none is available.
GeographyPage(part, r) ==
    /\ IF get_weighted_geography_question(part, prev_geography_id[part], r) = {}
       THEN UNCHANGED prev_geography_id
       ELSE \E geography_data \in
                   get_weighted_geography_question(part, prev_geography_id[part], r) :
               prev_geography_id' = [prev_geography_id EXCEPT ![part] = geography_data]
    /\ UNCHANGED <<geography_attempts, geography_stats, pueblosVars,
                   quizVars, multilineVars, threadVars>>

geography_states(r) == GeographyPage(1, r)

geography_capitals(r) == GeographyPage(2, r)

\* The number of rows of geography_attempts.
GeographyTotalAttempts ==
    SumOver(DOMAIN geography_attempts,
            [k \in DOMAIN geography_attempts |-> Len(geography_attempts[k])])

\* POST /geography_answer for an existing state.
record_geography_answer(geography_id, part, is_correct) ==
    /\ geography_id \in GeographyIds
    /\ part \in Parts
    /\ GeographyTotalAttempts < GeographyMaxAnswers
    /\ update_geography_stats(geography_id, part, is_correct)
    /\ UNCHANGED <<prev_geography_id, pueblosVars, quizVars, multilineVars, threadVars>>

\* No geography_pueblos.html page in the browser.
NoPuebloPage == [pueblo_id |-> None, mode |-> 0, correct_pueblo_ids |-> <<>>]

\* A database without pueblos.
PueblosEmpty ==
    /\ pueblos_attempts = <<>>
    /\ pueblos_stats = <<>>
    /\ prev_pueblo_id = None
    /\ pueblos_page = NoPuebloPage

\* A database without states and without pueblos.
GeographyEmpty ==
    /\ geography_attempts = <<>>
    /\ geography_stats = <<>>
    /\ prev_geography_id = [part \in Parts |-> None]
    /\ PueblosEmpty

\* The states with default statistics for both parts, no attempt, a fresh
\* session.
GeographyImported ==
    /\ geography_attempts = [k \in GeographyIds \X Parts |-> <<>>]
    /\ geography_stats = [k \in GeographyIds \X Parts |-> InitialGeographyStats]
    /\ prev_geography_id = [part \in Parts |-> None]
    /\ PueblosEmpty

(* --------------------- Pueblos Magicos quiz (app.py) ------------------ *)

\* Rows of pueblos_attempts in one behaviour.
PueblosMaxRows == 3

\* pueblos_magicos.state_name by pueblo id: a state of four pueblos and a
\* state of one.
PuebloStateNames == <<"A", "A", "A", "A", "B">>

\* The ids of table pueblos_magicos.
PuebloIds == DOMAIN PuebloStateNames

\* The row of pueblos_stats of a pueblo that was never answered.
InitialPuebloStats ==
    [times_answered |-> 0, times_correct |-> 0,
     weight |-> INITIAL_WEIGHT, is_mastered |-> InitialMasteredFlag]

\* is_pueblo_mastered on a log: 3 or more attempts in the window and a
\* rolling success rate of 0.8 or more.
is_pueblo_mastered(log) ==
    LET rr == RollingOf(log)
    IN  rr.total >= MASTERY_MIN_ATTEMPTS /\ RateAtLeastThreshold(rr)

\* The separator of the comma-separated strings; the other characters are
\* the digits of the ids (every id here has one digit).
Comma == -1

RECURSIVE JoinIds(_)
\* ','.join(str(pid) for pid in correct_pueblo_ids)
JoinIds(ids) ==
    IF ids = <<>> THEN <<>>
    ELSE IF Len(ids) = 1 THEN <<Head(ids)>>
    ELSE <<Head(ids), Comma>> \o JoinIds(Tail(ids))

RECURSIVE ParseIds(_)
\* [int(pid) for pid in correct_pueblo_ids.split(',') if pid]
ParseIds(string) ==
    IF string = <<>> THEN <<>>
    ELSE IF Head(string) = Comma THEN ParseIds(Tail(string))
    ELSE <<Head(string)>> \o ParseIds(Tail(string))

RECURSIVE PueblosAfter(_, _, _, _)
\* The loop of update_pueblos_stats over pueblo_ids, one pueblo after the
\* other on the rows the earlier iterations left: the attempt is inserted,
\* the mastery computed, for a correct answer every other pueblo stored in
\* that category is incremented (the pueblos credited earlier included),
\* and the statistics row of the pueblo is stored.
PueblosAfter(attempts_rows, stats_rows, pueblo_ids, is_correct) ==
    IF pueblo_ids = <<>>
    THEN [attempts |-> attempts_rows, stats |-> stats_rows]
    ELSE LET pueblo_id   == Head(pueblo_ids)
             newLog      == Append(attempts_rows[pueblo_id], [ok |-> is_correct, ts |-> now])
             result      == stats_rows[pueblo_id]
             is_mastered == is_pueblo_mastered(newLog)
             bumped      == IF is_correct
                            THEN {s \in DOMAIN stats_rows \ {pueblo_id} :
                                     stats_rows[s].is_mastered = is_mastered}
                            ELSE {}
             weight      == IF is_correct THEN 0 ELSE result.weight
         IN  PueblosAfter(
                 [attempts_rows EXCEPT ![pueblo_id] = newLog],
                 [s \in DOMAIN stats_rows |->
                     IF s = pueblo_id
                     THEN [times_answered |-> result.times_answered + 1,
                           times_correct  |-> result.times_correct
                                                  + (IF is_correct THEN 1 ELSE 0),
                           weight         |-> weight,
                           is_mastered    |-> is_mastered]
                     ELSE IF s \in bumped
                     THEN [stats_rows[s] EXCEPT !.weight = @ + WEIGHT_INCREMENT]
                     ELSE stats_rows[s]],
                 Tail(pueblo_ids), is_correct)

\* update_pueblos_stats(pueblo_ids, is_correct) for existing pueblos.
update_pueblos_stats(pueblo_ids, is_correct) ==
    LET after == PueblosAfter(pueblos_attempts, pueblos_stats, pueblo_ids, is_correct)
    IN  /\ pueblos_attempts' = after.attempts
        /\ pueblos_stats' = after.stats

\* random.choice / random.choices over a bucket of pueblos by weight.
PuebloChoices(bucket) ==
    IF SumOver(bucket, [p \in bucket |-> pueblos_stats[p].weight]) = 0
    THEN bucket
    ELSE {p \in bucket : pueblos_stats[p].weight > 0}

\* get_weighted_pueblo_question: the possible results for the draw r;
\* {} stands for None.
get_weighted_pueblo_question(exclude_pueblo_id, r) ==
    LET pueblos    == IF exclude_pueblo_id # None
                      THEN DOMAIN pueblos_stats \ {exclude_pueblo_id}
                      ELSE DOMAIN pueblos_stats
        unmastered == {p \in pueblos : ~is_pueblo_mastered(pueblos_attempts[p])}
        mastered   == {p \in pueblos : is_pueblo_mastered(pueblos_attempts[p])}
    IN  IF pueblos = {} THEN {}
        ELSE IF r < UNMASTERED_SHARE
        THEN IF unmastered # {}
             THEN PuebloChoices(unmastered)
             ELSE PuebloChoices(mastered)
        ELSE IF mastered # {}
             THEN PuebloChoices(mastered)
             ELSE PuebloChoices(unmastered)

\* SELECT id FROM pueblos_magicos WHERE state_name = ?
PueblosOfState(state_name) == {p \in PuebloIds : PuebloStateNames[p] = state_name}

\* SELECT id FROM pueblos_magicos WHERE state_name = (the state of
\* pueblo_id) ORDER BY RANDOM() LIMIT 3: the possible lists of ids.
StatePueblos(pueblo_id) ==
    LET of_state == PueblosOfState(PuebloStateNames[pueblo_id])
    IN  {list \in [1..Min(3, Cardinality(of_state)) -> of_state] :
            \A i, j \in DOMAIN list : i # j => list[i] # list[j]}

\* The number of rows of pueblos_attempts.
PueblosTotalAttempts ==
    SumOver(DOMAIN pueblos_attempts,
            [p \in DOMAIN pueblos_attempts |-> Len(pueblos_attempts[p])])

\* GET /geography_pueblos with random.random() = r / 100 selecting
\* pueblo_data, random.randint(1, 2) = mode when the state has 3 or more
\* pueblos (else mode 1), and state_pueblos the rows of the mode 2 query.
\* The page holds correct_pueblo_ids as a comma-separated string.
geography_pueblos(r, pueblo_data, mode, state_pueblos) ==
    /\ PueblosTotalAttempts < PueblosMaxRows
    /\ IF get_weighted_pueblo_question(prev_pueblo_id, r) = {}
       THEN UNCHANGED <<prev_pueblo_id, pueblos_page>>
       ELSE /\ pueblo_data \in get_weighted_pueblo_question(prev_pueblo_id, r)
            /\ prev_pueblo_id' = pueblo_data
            /\ IF Cardinality(PueblosOfState(PuebloStateNames[pueblo_data])) >= 3
               THEN mode \in {1, 2}
               ELSE mode = 1
            /\ IF mode = 1
               THEN state_pueblos = <<pueblo_data>>
               ELSE state_pueblos \in StatePueblos(pueblo_data)
            /\ pueblos_page' = [pueblo_id |-> pueblo_data, mode |-> mode,
                                correct_pueblo_ids |-> JoinIds(state_pueblos)]
    /\ UNCHANGED <<pueblos_attempts, pueblos_stats, geography_attempts, geography_stats,
                   prev_geography_id, quizVars, multilineVars, threadVars>>

\* POST /pueblos_answer with the form of the page the browser holds.
record_pueblos_answer(is_correct) ==
    LET pueblo_ids == ParseIds(pueblos_page.correct_pueblo_ids)
    IN  /\ pueblos_page # NoPuebloPage
        /\ PueblosTotalAttempts + Len(pueblo_ids) <= PueblosMaxRows
        /\ update_pueblos_stats(pueblo_ids, is_correct)
        /\ UNCHANGED <<prev_pueblo_id, pueblos_page, geography_attempts, geography_stats,
                       prev_geography_id, quizVars, multilineVars, threadVars>>

\* The pueblos with default statistics, no attempt, a fresh session.
PueblosImported ==
    /\ pueblos_attempts = [p \in PuebloIds |-> <<>>]
    /\ pueblos_stats = [p \in PuebloIds |-> InitialPuebloStats]
    /\ prev_pueblo_id = None
    /\ pueblos_page = NoPuebloPage

(* ------------- concurrent calls of update_question_stats -------------- *)

\* Calls of update_question_stats begun in one behaviour.
MaxRequests == 2

\* The request threads of the server.
Threads == {1, 2}

\* A thread outside update_question_stats.
IdleCall ==
    [pc |-> "idle", question_id |-> None, is_correct |-> FALSE,
     times_answered |-> 0, times_correct |-> 0, is_mastered |-> FALSE, weight |-> 0]

\* No transaction is open: the journal is empty.
NoJournal == [open |-> FALSE, attempts |-> <<>>, stats |-> <<>>]

\* Nothing was read yet.
NoRows == [rows |-> [attempts |-> <<>>, stats |-> <<>>], in_transaction |-> FALSE]

\* Mutant of CommittedRows: a reader sees the pages the writer has
\* changed before its commit.
CommittedRows_Uncommitted ==
    [attempts |-> attempts, stats |-> stats]

\* The rows of question_attempts and question_stats a connection other
\* than the writer's reads: the writer's changes stay in its own page
\* cache until conn.commit(), the database file holds the rows the journal
\* recorded.
CommittedRows ==
    IF journal.open
    THEN [attempts |-> journal.attempts, stats |-> journal.stats]
    ELSE [attempts |-> attempts, stats |-> stats]

\* Mutant of CanWrite: the INSERT does not wait for the write lock (every
\* statement is its own transaction).
CanWrite_NoLock(t) == TRUE

\* The first write of a connection opens its transaction and takes the
\* database's write lock, which one connection holds at a time.
CanWrite(t) == write_lock = None \/ write_lock = t

\* update_question_stats is entered: the connection is opened.
begin_update(t, question_id, is_correct) ==
    /\ call[t].pc = "idle"
    /\ question_id \in questions
    /\ requests.begun < MaxRequests
    /\ call' = [call EXCEPT ![t] = [IdleCall EXCEPT !.pc = "insert",
                                                    !.question_id = question_id,
                                                    !.is_correct = is_correct]]
    /\ requests' = [requests EXCEPT
           !.begun = @ + 1,
           !.overlapped = @ \/ \E u \in Threads \ {t} :
                                   /\ call[u].pc # "idle"
                                   /\ call[u].question_id = question_id]
    /\ UNCHANGED <<write_lock, journal, page_read, quizVars, multilineVars, geographyVars>>

\* INSERT INTO question_attempts, inside a transaction it opens.
insert_attempt(t) ==
    /\ call[t].pc = "insert"
    /\ CanWrite(t)
    /\ write_lock' = t
    /\ journal' = IF journal.open THEN journal
                  ELSE [open |-> TRUE, attempts |-> attempts, stats |-> stats]
    /\ attempts' = [attempts EXCEPT ![call[t].question_id] =
                       Append(@, [ok |-> call[t].is_correct, ts |-> now])]
    /\ call' = [call EXCEPT ![t].pc = "select_counters"]
    /\ UNCHANGED <<chunk_number, questions, stats, progress, prev_question_id, now,
                   tieBreak, requests, page_read, multilineVars, geographyVars>>

\* The INSERT waited for the write lock longer than the connection's
\* timeout: OperationalError (database is locked) ends the request.
database_is_locked(t) ==
    /\ call[t].pc = "insert"
    /\ ~CanWrite(t)
    /\ call' = [call EXCEPT ![t] = IdleCall]
    /\ UNCHANGED <<write_lock, requests, journal, page_read, quizVars, multilineVars,
                   geographyVars>>

\* SELECT times_answered, times_correct; both are incremented in Python.
select_counters(t) ==
    /\ call[t].pc = "select_counters"
    /\ LET result == stats[call[t].question_id]
       IN  call' = [call EXCEPT
               ![t].times_answered = result.times_answered + 1,
               ![t].times_correct = result.times_correct
                                        + (IF call[t].is_correct THEN 1 ELSE 0),
               ![t].pc = "select_mastery"]
    /\ UNCHANGED <<write_lock, requests, journal, page_read, quizVars, multilineVars,
                   geographyVars>>

\* is_question_mastered(question_id, cursor)
select_mastery(t) ==
    /\ call[t].pc = "select_mastery"
    /\ call' = [call EXCEPT
           ![t].is_mastered = is_question_mastered(call[t].question_id),
           ![t].pc = "update_weights"]
    /\ UNCHANGED <<write_lock, requests, journal, page_read, quizVars, multilineVars,
                   geographyVars>>

\* Correct: weight = 0.0 and the UPDATE of the siblings; wrong: SELECT
\* weight.
update_weights(t) ==
    /\ call[t].pc = "update_weights"
    /\ LET question_id == call[t].question_id
           bumped == IF call[t].is_correct
                     THEN BumpedSiblings(question_id, progress.max_unlocked_chunk,
                                         call[t].is_mastered)
                     ELSE {}
       IN  /\ stats' = [s \in DOMAIN stats |->
                   IF s \in bumped
                   THEN [stats[s] EXCEPT !.weight = @ + WEIGHT_INCREMENT]
                   ELSE stats[s]]
           /\ call' = [call EXCEPT
                  ![t].weight = AnsweredWeight(call[t].is_correct, stats[question_id].weight),
                  ![t].pc = "update_stats"]
    /\ UNCHANGED <<chunk_number, questions, attempts, progress, prev_question_id, now,
                   tieBreak, write_lock, requests, journal, page_read, multilineVars,
                   geographyVars>>

\* UPDATE question_stats SET times_answered, times_correct, weight,
\* is_mastered of the answered question.
update_stats_row(t) ==
    /\ call[t].pc = "update_stats"
    /\ stats' = [stats EXCEPT ![call[t].question_id] =
                    [times_answered |-> call[t].times_answered,
                     times_correct  |-> call[t].times_correct,
                     weight         |-> call[t].weight,
                     is_mastered    |-> call[t].is_mastered]]
    /\ call' = [call EXCEPT ![t].pc = "commit"]
    /\ UNCHANGED <<chunk_number, questions, attempts, progress, prev_question_id, now,
                   tieBreak, write_lock, requests, journal, page_read, multilineVars,
                   geographyVars>>

\* conn.commit(); conn.close(): the write lock is released and the call
\* returns.
commit(t) ==
    /\ call[t].pc = "commit"
    /\ write_lock' = None
    /\ journal' = NoJournal
    /\ requests' = [requests EXCEPT
           !.returned = @ + 1,
           !.returned_correct = @ + (IF call[t].is_correct THEN 1 ELSE 0)]
    /\ call' = [call EXCEPT ![t] = IdleCall]
    /\ UNCHANGED <<page_read, quizVars, multilineVars, geographyVars>>

\* A SELECT of question_attempts and question_stats by a connection other
\* than the writer's (get_weighted_question, the statistics page): it
\* returns the rows of the database file.
select_rows ==
    /\ page_read' = [rows |-> CommittedRows, in_transaction |-> write_lock # None]
    /\ page_read' # page_read
    /\ UNCHANGED <<call, write_lock, requests, journal, quizVars, multilineVars,
                   geographyVars>>

\* No thread is inside update_question_stats.
ThreadsIdle ==
    /\ call = [t \in Threads |-> IdleCall]
    /\ write_lock = None
    /\ requests = [begun |-> 0, returned |-> 0, returned_correct |-> 0,
                   overlapped |-> FALSE]
    /\ journal = NoJournal
    /\ page_read = NoRows

(* ---- weight_calculator.py, recalculate_weights.py and the scripts ---- *)

\* Answers posted to /answer in one behaviour that also runs the scripts.
ToolsMaxAnswers == 3

\* Rows of question_attempts per question when simulate_answers.py runs.
ToolsMaxLogLen == 5

\* The values of --attempts simulate_answers.py is run with.
SimulatedAttempts == {1, 3, 4}

\* The values of --questions simulate_answers.py is run with.
SimulatedQuestions == {1, 3}

CONFIDENCE_THRESHOLD == 3

\* MAX_SUCCESS_RATE_CAP = 0.98 as the fraction 49 / 50.
MAX_SUCCESS_RATE_CAP_NUM == 49

MAX_SUCCESS_RATE_CAP_DEN == 50

\* The cap of calculate_weight in weight_calculator.py, 25.0.
WEIGHT_CAP == 25000000

\* The cap of calculate_weight in recalculate_weights.py, 50.0.
RECALCULATE_WEIGHT_CAP == 50000000

\* abs(new_weight - old_weight) > 0.01 in recalculate_all_weights.
SIGNIFICANT_CHANGE == 10000

\* The weight reset_progress.py stores, 10.0.
RESET_WEIGHT == 10000000

\* 5.0 ** (num / den) in millionths, rounded, for the exponents
\* 1 - effective_success_rate of the windows of up to 5 rows.
FivePowers ==
    { [num |-> 1, den |-> 1,  value |-> 5000000],
      [num |-> 4, den |-> 5,  value |-> 3623898],
      [num |-> 3, den |-> 4,  value |-> 3343702],
      [num |-> 2, den |-> 3,  value |-> 2924018],
      [num |-> 3, den |-> 5,  value |-> 2626528],
      [num |-> 1, den |-> 2,  value |-> 2236068],
      [num |-> 2, den |-> 5,  value |-> 1903654],
      [num |-> 1, den |-> 3,  value |-> 1709976],
      [num |-> 1, den |-> 4,  value |-> 1495349],
      [num |-> 1, den |-> 5,  value |-> 1379730],
      [num |-> 1, den |-> 50, value |-> 1032712] }

\* 5.0 ** (num / den), in millionths.
FivePow(num, den) ==
    (CHOOSE p \in FivePowers : p.num * den = num * p.den).value

\* base_weight of calculate_weight for the rolling rate rr.correct / rr.total
\* (0.0 for an empty window): 0.2 + 25.0 * (5.0 ** (1 - min(rate, 0.98)) - 1.0).
BaseWeight(rr) ==
    LET capped == /\ rr.total > 0
                  /\ MAX_SUCCESS_RATE_CAP_DEN * rr.correct > MAX_SUCCESS_RATE_CAP_NUM * rr.total
        power  == IF rr.total = 0 THEN FivePow(1, 1)
                  ELSE IF capped
                  THEN FivePow(MAX_SUCCESS_RATE_CAP_DEN - MAX_SUCCESS_RATE_CAP_NUM,
                               MAX_SUCCESS_RATE_CAP_DEN)
                  ELSE FivePow(rr.total - rr.correct, rr.total)
    IN  200000 + 25 * (power - 1000000)

\* confidence of calculate_weight, in thirds:
\* min(recent_attempts_count / CONFIDENCE_THRESHOLD, 1.0).
ConfidenceThirds(rr) == Min(rr.total, CONFIDENCE_THRESHOLD)

\* base_weight * confidence_multiplier with
\* confidence_multiplier = 1.0 + (1 - confidence) * 2.5, which is
\* (6 + 5 * (3 - thirds)) / 6.
UncappedWeight(rr) ==
    (BaseWeight(rr) * (6 + 5 * (CONFIDENCE_THRESHOLD - ConfidenceThirds(rr)))) \div 6

\* Mutant of calculate_weight: the formula is applied below 3 attempts too.
calculate_weight_NoThreshold(times_answered, rr) ==
    Min(UncappedWeight(rr), WEIGHT_CAP)

\* calculate_weight of weight_calculator.py, given the rolling rate the
\* cursor returns.
calculate_weight(times_answered, rr) ==
    IF times_answered = 0 THEN 25000000
    ELSE IF times_answered < CONFIDENCE_THRESHOLD THEN 25000000
    ELSE Min(UncappedWeight(rr), WEIGHT_CAP)

\* calculate_weight of recalculate_weights.py.
recalculate_weights_calculate_weight(times_answered, rr) ==
    IF times_answered = 0 THEN 25000000
    ELSE IF times_answered < CONFIDENCE_THRESHOLD THEN 25000000
    ELSE Min(UncappedWeight(rr), RECALCULATE_WEIGHT_CAP)

\* SELECT id FROM questions ORDER BY id LIMIT num_questions
FirstQuestions(num_questions) ==
    {q \in questions : Cardinality({p \in questions : p < q}) < num_questions}

RECURSIVE Repeated(_, _)
\* A list of n copies of row.
Repeated(row, n) == IF n = 0 THEN <<>> ELSE Append(Repeated(row, n - 1), row)

\* simulate_answers.py --questions num_questions --attempts num_attempts:
\* num_attempts correct rows are inserted for each of the first questions,
\* and its counters and weight are set.
simulate_correct_answers(num_questions, num_attempts) ==
    LET simulated == FirstQuestions(num_questions)
        newLog(q) == attempts[q] \o Repeated([ok |-> TRUE, ts |-> now], num_attempts)
    IN  /\ questions # {}
        /\ \A q \in simulated : Len(attempts[q]) + num_attempts <= ToolsMaxLogLen
        /\ attempts' = [q \in questions |->
                           IF q \in simulated THEN newLog(q) ELSE attempts[q]]
        /\ stats' = [q \in questions |->
                        IF q \in simulated
                        THEN [stats[q] EXCEPT
                                 !.times_answered = num_attempts,
                                 !.times_correct = num_attempts,
                                 !.weight = calculate_weight(num_attempts,
                                                             RollingOf(newLog(q)))]
                        ELSE stats[q]]
        /\ UNCHANGED <<chunk_number, questions, progress, prev_question_id, now, tieBreak,
                       multilineVars, geographyVars, threadVars>>

\* The weight recalculate_all_weights leaves for question q.
RecalculatedWeight(q) ==
    LET new_weight == recalculate_weights_calculate_weight(
                          stats[q].times_answered, get_rolling_success_rate(q))
        old_weight == stats[q].weight
    IN  IF new_weight - old_weight > SIGNIFICANT_CHANGE
           \/ old_weight - new_weight > SIGNIFICANT_CHANGE
        THEN new_weight
        ELSE old_weight

\* recalculate_weights.py: every row of question_stats is given its
\* recalculated weight.
recalculate_all_weights ==
    /\ stats' = [q \in questions |-> [stats[q] EXCEPT !.weight = RecalculatedWeight(q)]]
    /\ UNCHANGED <<chunk_number, questions, attempts, progress, prev_question_id, now,
                   tieBreak, multilineVars, geographyVars, threadVars>>

\* reset_progress.py, confirmed with 'yes'.
reset_progress ==
    /\ questions # {}
    /\ progress' = [max_unlocked_chunk |-> 1, questions_in_current_set |-> 10]
    /\ stats' = [q \in questions |->
                    [stats[q] EXCEPT !.times_answered = 0,
                                     !.times_correct = 0,
                                     !.weight = RESET_WEIGHT]]
    /\ UNCHANGED <<chunk_number, questions, attempts, prev_question_id, now, tieBreak,
                   multilineVars, geographyVars, threadVars>>

(* --------------------------- specifications --------------------------- *)

\* The trivia quiz on the questions of one import.
Init == QuizImported /\ MultilineEmpty /\ GeographyEmpty /\ ThreadsIdle

Spec == Init /\ [][Next]_vars

\* The progressive list quiz on the lists of one content.
MultilineInit == QuizEmpty /\ MultilineImported /\ GeographyEmpty /\ ThreadsIdle

MultilineNext ==
    \/ \E session_id \in {None} \cup (1..MultilineMaxSessions), r \in Draws :
           multiline_quiz(session_id, r)
    \/ \E is_correct \in BOOLEAN : SubmitPage(is_correct)

MultilineSpec == MultilineInit /\ [][MultilineNext]_vars

\* The geography quiz.
GeographyInit == QuizEmpty /\ MultilineEmpty /\ GeographyImported /\ ThreadsIdle

GeographyNext ==
    \/ \E r \in Draws : geography_states(r)
    \/ \E r \in Draws : geography_capitals(r)
    \/ \E geography_id \in GeographyIds, part \in Parts, is_correct \in BOOLEAN :
           record_geography_answer(geography_id, part, is_correct)

GeographySpec == GeographyInit /\ [][GeographyNext]_vars

\* Two request threads running update_question_stats statement by
\* statement on the imported trivia questions.
ConcurrentInit == QuizImported /\ MultilineEmpty /\ GeographyEmpty /\ ThreadsIdle

ConcurrentNext ==
    \/ \E t \in Threads, question_id \in Items, is_correct \in BOOLEAN :
           begin_update(t, question_id, is_correct)
    \/ \E t \in Threads : insert_attempt(t)
    \/ \E t \in Threads : database_is_locked(t)
    \/ \E t \in Threads : select_counters(t)
    \/ \E t \in Threads : select_mastery(t)
    \/ \E t \in Threads : update_weights(t)
    \/ \E t \in Threads : update_stats_row(t)
    \/ \E t \in Threads : commit(t)
    \/ select_rows

ConcurrentSpec == ConcurrentInit /\ [][ConcurrentNext]_vars

\* The trivia quiz together with the scripts run from the command line
\* (simulate_answers.py, recalculate_weights.py, reset_progress.py).
ToolsInit == QuizImported /\ MultilineEmpty /\ GeographyEmpty /\ ThreadsIdle

ToolsNext ==
    \/ \E question_id \in Items, is_correct \in BOOLEAN :
           /\ TotalAttempts < ToolsMaxAnswers
           /\ record_answer(question_id, is_correct)
    \/ \E num_questions \in SimulatedQuestions, num_attempts \in SimulatedAttempts :
           simulate_correct_answers(num_questions, num_attempts)
    \/ recalculate_all_weights
    \/ reset_progress
    \/ show_progress

ToolsSpec == ToolsInit /\ [][ToolsNext]_vars

\* Requests to the trivia quiz with three chunks imported, one question each.
ChunksInit ==
    /\ chunk_number = ThreeChunks
    /\ questions = DOMAIN chunk_number
    /\ attempts = [q \in questions |-> <<>>]
    /\ stats = [q \in questions |-> InitialStats]
    /\ progress = [max_unlocked_chunk |-> 1, questions_in_current_set |-> INITIAL_SET_SIZE]
    /\ prev_question_id = None
    /\ now = 0
    /\ tieBreak \in TieBreaks
    /\ MultilineEmpty /\ GeographyEmpty /\ ThreadsIdle

ChunksNext ==
    \/ \E question_id \in Items, is_correct \in BOOLEAN :
           record_answer(question_id, is_correct)
    \/ \E r \in Draws, question_data \in Items \cup {None} :
           quiz(r, question_data)
    \/ show_progress

ChunksSpec == ChunksInit /\ [][ChunksNext]_vars

(* ------------- the learner who answers every shown question ----------- *)

\* The imports the learner starts from.
LearnerContents == Contents \cup {ThreeChunks, <<1, 1, 1, 2>>}

\* Every question id of some import of the learner.
LearnerItems == UNION {DOMAIN c : c \in LearnerContents}

\* One turn of the learner: GET / with random.random() = r / 100 shows
\* question_data, and POST /answer records a correct answer to it.  quiz
\* leaves the user_progress row of its two unlock evaluations and the
\* session's prev_question_id; update_question_stats then reads that row.
\* When GET / answers "No questions available!" there is no question to
\* answer and the turn does not take place.
learner_turn(r, question_data) ==
    LET max_chunk    == ProgressAfterQuiz.max_unlocked_chunk
        newLog       == Append(attempts[question_data], [ok |-> TRUE, ts |-> now])
        result       == stats[question_data]
        is_mastered  == MasteredOf(newLog)
        bumped       == BumpedSiblings(question_data, max_chunk, is_mastered)
    IN  /\ TotalAttempts < LearnerMaxAnswers
        /\ question_data \in QuizResults(r)
        /\ progress' = ProgressAfterQuiz
        /\ prev_question_id' = question_data
        /\ attempts' = [attempts EXCEPT ![question_data] = newLog]
        /\ stats' = [s \in DOMAIN stats |->
                IF s = question_data
                THEN [times_answered |-> result.times_answered + 1,
                      times_correct  |-> result.times_correct + 1,
                      weight         |-> AnsweredWeight(TRUE, result.weight),
                      is_mastered    |-> is_mastered]
                ELSE IF s \in bumped
                THEN [stats[s] EXCEPT !.weight = @ + WEIGHT_INCREMENT]
                ELSE stats[s]]
        /\ UNCHANGED <<chunk_number, questions, now, tieBreak,
                     multilineVars, geographyVars, threadVars>>

LearnerInit ==
    /\ chunk_number \in LearnerContents
    /\ questions = DOMAIN chunk_number
    /\ attempts = [q \in questions |-> <<>>]
    /\ stats = [q \in questions |-> InitialStats]
    /\ progress = [max_unlocked_chunk |-> 1, questions_in_current_set |-> INITIAL_SET_SIZE]
    /\ prev_question_id = None
    /\ now = 0
    /\ tieBreak \in TieBreaks
    /\ MultilineEmpty /\ GeographyEmpty /\ ThreadsIdle

LearnerNext ==
    \E r \in Draws, question_data \in LearnerItems : learner_turn(r, question_data)

\* random.random() and random.choices are fair: a result that is possible
\* again and again is eventually drawn.
LearnerFairness ==
    \A r \in Draws, question_data \in LearnerItems : SF_vars(learner_turn(r, question_data))

LearnerSpec == LearnerInit /\ [][LearnerNext]_vars /\ LearnerFairness

\* The Pueblos Magicos quiz.
PueblosInit ==
    /\ QuizEmpty /\ MultilineEmpty /\ ThreadsIdle
    /\ geography_attempts = <<>>
    /\ geography_stats = <<>>
    /\ prev_geography_id = [part \in Parts |-> None]
    /\ PueblosImported

PueblosNext ==
    \/ \E r \in Draws, pueblo_data \in PuebloIds, mode \in {1, 2} :
           \E state_pueblos \in IF mode = 1 THEN {<<pueblo_data>>}
                                 ELSE StatePueblos(pueblo_data) :
               geography_pueblos(r, pueblo_data, mode, state_pueblos)
    \/ \E is_correct \in BOOLEAN : record_pueblos_answer(is_correct)

PueblosSpec == PueblosInit /\ [][PueblosNext]_vars

(* ------------------------------ claims -------------------------------- *)

\* The rows of question q in its rolling window, and how many are correct.
WindowRows(q) == RecentAttempts(attempts[q], 5)

WindowCorrect(q) == Cardinality({i \in WindowRows(q) : attempts[q][i].ok})

WindowSize(q) == Cardinality(WindowRows(q))

\* The questions of the unlocked chunks.
UnlockedPool(max_chunk) == {q \in questions : chunk_number[q] <= max_chunk}

\* C1: for every item, is_mastered holds exactly when the rolling window
\* holds at least 3 attempts of which at least 80% are correct; 2 of 2 is
\* not mastered, 4 of 5 is, 3 of 5 is not, and no attempt is not.
C1_MasteryPredicate ==
    \A q \in questions :
        LET n == WindowSize(q)
            c == WindowCorrect(q)
        IN  /\ is_question_mastered(q) <=> (n >= 3 /\ 10 * c >= 8 * n)
            /\ (n = 0 => ~is_question_mastered(q))
            /\ (n = 2 /\ c = 2 => ~is_question_mastered(q))
            /\ (n = 5 /\ c = 4 => is_question_mastered(q))
            /\ (n = 5 /\ c = 3 => ~is_question_mastered(q))

\* C1 witness: a question answered 5 times, 4 of them correctly, is mastered
\* and was stored as mastered by its last answer.
C1_Witness ==
    \E q \in questions :
        /\ Len(attempts[q]) = 5
        /\ WindowCorrect(q) = 4
        /\ is_question_mastered(q)
        /\ stats[q].is_mastered

\* C2: the rolling rate of every item is the share of correct answers among
\* its min(5, n) most recently recorded attempts, with sample count
\* min(5, n), and (0.0, 0) without attempts.
C2_WindowIsMostRecentlyRecorded ==
    \A q \in questions :
        LET log == attempts[q]
            n == Len(log)
            m == IF n < 5 THEN n ELSE 5
            newest == {i \in 1..n : i > n - m}
            c == Cardinality({i \in newest : log[i].ok})
            rr == get_rolling_success_rate(q)
        IN  /\ rr.total = m
            /\ rr.correct = c

\* C3: a correct answer sets the answered item's weight to 0.0 and adds 0.1
\* to every other item of the unlocked chunks in the same mastery category;
\* an incorrect answer changes no weight.
C3_PolicyB ==
    [][\A x \in Items, ok \in BOOLEAN :
        record_answer(x, ok) =>
            IF ok
            THEN /\ stats'[x].weight = 0
                 /\ \A s \in questions \ {x} :
                        (/\ chunk_number[s] <= progress.max_unlocked_chunk
                         /\ MasteredOf(attempts'[s]) = MasteredOf(attempts'[x]))
                        => stats'[s].weight = stats[s].weight + 100000
            ELSE \A s \in questions : stats'[s].weight = stats[s].weight]_vars

\* C3 witness: after one correct answer the answered item has weight 0.0
\* and its sibling of the unlocked chunk has 25.1, while the item of the
\* locked chunk keeps 25.0.
C3_Witness ==
    \E x, s, l \in questions :
        /\ x # s
        /\ Len(attempts[x]) = 1 /\ attempts[x][1].ok
        /\ stats[x].weight = 0
        /\ chunk_number[s] <= progress.max_unlocked_chunk
        /\ stats[s].weight = 25100000
        /\ chunk_number[l] > progress.max_unlocked_chunk
        /\ stats[l].weight = 25000000

C5_ProgressNeverDecreases ==
    [][/\ progress'.max_unlocked_chunk >= progress.max_unlocked_chunk
       /\ progress'.questions_in_current_set >= progress.questions_in_current_set
       /\ progress' # progress =>
              \/ show_progress
              \/ \E r \in Draws, d \in Items \cup {None} : quiz(r, d)]_vars

\* C5 witness: chunk 2 is unlocked while a question of chunk 1, mastered
\* after three correct answers, has relapsed with a fourth, wrong answer.
C5_Witness ==
    /\ progress.max_unlocked_chunk = 2
    /\ \E q \in questions :
        /\ chunk_number[q] = 1
        /\ Len(attempts[q]) = 4
        /\ \A i \in 1..3 : attempts[q][i].ok
        /\ ~attempts[q][4].ok
        /\ ~is_question_mastered(q)

\* The candidates of a next-item request in the current state: the unlocked
\* pool after the unlock evaluation, without the previously shown question.
NonExcluded == UnlockedPool(ProgressAfterQuiz.max_unlocked_chunk) \ {prev_question_id}

\* C6: with at least 2 questions in the unlocked pool the selector never
\* returns the excluded question, and with a non-empty pool it returns a
\* question of the pool (None only for an empty pool).
C6_NeverExcludedAlwaysAvailable ==
    \A r \in Draws :
        LET pool == UnlockedPool(ProgressAfterQuiz.max_unlocked_chunk)
            res  == QuizResults(r)
        IN  /\ Cardinality(pool) >= 2 => prev_question_id \notin res
            /\ pool # {} => (res # {} /\ res \subseteq pool)

\* C7: when the unlocked pool holds exactly the excluded question, the
\* selector returns that question.
C7_SingleItemPoolReturnsItem ==
    \A r \in Draws, x \in questions :
        (/\ UnlockedPool(ProgressAfterQuiz.max_unlocked_chunk) = {x}
         /\ prev_question_id = x)
        => QuizResults(r) = {x}

\* C8: in every reachable state, what a next-item request can return for
\* the draw r is an unmastered question when r < 0.7 and a non-excluded
\* candidate is unmastered, a mastered one when r >= 0.7 and a non-excluded
\* candidate is mastered, and a question of the other bucket when the
\* preferred bucket is empty; mastery is the live predicate on the log.
C8_SeventyThirtySplit ==
    \A r \in Draws :
        LET unm == {q \in NonExcluded : ~is_question_mastered(q)}
            mas == {q \in NonExcluded : is_question_mastered(q)}
            res == QuizResults(r)
        IN  /\ (r < 70 /\ unm # {}) => (res # {} /\ res \subseteq unm)
            /\ (r >= 70 /\ mas # {}) => (res # {} /\ res \subseteq mas)
            /\ (r < 70 /\ unm = {} /\ mas # {}) => (res # {} /\ res \subseteq mas)
            /\ (r >= 70 /\ mas = {} /\ unm # {}) => (res # {} /\ res \subseteq unm)

\* C8 witness: after an earlier request (a question is excluded) both
\* buckets hold a candidate; the draw 0.69 can return an unmastered and the
\* draw 0.70 a mastered question.
C8_Witness ==
    /\ prev_question_id # None
    /\ \E u, m \in NonExcluded :
        /\ ~is_question_mastered(u)
        /\ is_question_mastered(m)
        /\ ENABLED quiz(69, u)
        /\ ENABLED quiz(70, m)

\* The bucket a next-item request with draw r selects from.
ChosenBucket(r) ==
    LET unm == {q \in NonExcluded : ~is_question_mastered(q)}
        mas == {q \in NonExcluded : is_question_mastered(q)}
    IN  IF r < 70
        THEN IF unm # {} THEN unm ELSE mas
        ELSE IF mas # {} THEN mas ELSE unm

AllZero(bucket) == bucket # {} /\ \A q \in bucket : stats[q].weight = 0

\* C9: when every question of the chosen bucket has weight 0, the selector
\* does not fail and every member of the bucket is a possible result.
C9_UniformFallback ==
    \A r \in Draws :
        AllZero(ChosenBucket(r)) => QuizResults(r) = ChosenBucket(r)

\* C9 witness: after an earlier request, the chosen bucket holds two
\* questions, both of weight 0, and the request can return either.
C9_Witness ==
    /\ prev_question_id # None
    /\ \E r \in Draws :
        /\ AllZero(ChosenBucket(r))
        /\ Cardinality(ChosenBucket(r)) >= 2
        /\ \A d \in ChosenBucket(r) : ENABLED quiz(r, d)

\* C10: every item's weight is >= 0 in every reachable state.
C10_WeightNonNegative ==
    \A q \in questions : stats[q].weight >= 0

\* C10 witness: after correct and incorrect answers one question is at 0.0
\* and another has grown above the import weight 25.0.
C10_Witness ==
    /\ \E x, s \in questions : stats[x].weight = 0 /\ stats[s].weight > 25000000
    /\ \E q \in questions : \E i \in DOMAIN attempts[q] : ~attempts[q][i].ok

\* C11: in every reachable state the set size is at most min(147, number of
\* items in content), and each unlock sets it to min(set size + 10, cap)
\* with cap the smaller of 147 and the item count.
C11_SetSizeWithinItemCount ==
    LET cap == Min(147, Cardinality(questions))
        new == get_current_question_set(progress)
    IN  /\ progress.questions_in_current_set <= cap
        /\ new # progress =>
               new.questions_in_current_set =
                   Min(progress.questions_in_current_set + 10, cap)

\* C12: max_unlocked_chunk never exceeds the highest chunk of the content,
\* and once it equals that chunk an evaluation of the unlock condition
\* leaves user_progress unchanged, whatever the mastery of the items.
C12_TerminalStateNoOp ==
    /\ progress.max_unlocked_chunk <= get_total_chunks
    /\ progress.max_unlocked_chunk = get_total_chunks =>
           get_current_question_set(progress) = progress

\* C12 witness: the highest chunk is unlocked and every question of the
\* unlocked chunks is mastered (the unlock condition holds but for the
\* missing higher chunk).
C12_Witness ==
    /\ progress.max_unlocked_chunk = get_total_chunks
    /\ UnlockedPool(progress.max_unlocked_chunk) # {}
    /\ \A q \in UnlockedPool(progress.max_unlocked_chunk) :
           /\ is_question_mastered(q)
           /\ stats[q].times_answered >= 3

\* C13: POST /answer with an id that has no row is answered as not found
\* (404).
C13_UnknownIdReportedNotFound ==
    \A id \in Items \ questions : record_answer_status(id) = 404

\* C14: a correct answer to a mastered item stores the weight 1.0 for it,
\* and an incorrect answer to a mastered item leaves its weight unchanged.
C14_MasteredCorrectResetsToOne ==
    [][\A x \in Items, ok \in BOOLEAN :
        (record_answer(x, ok) /\ is_question_mastered(x)) =>
            IF ok
            THEN stats'[x].weight = 1000000
            ELSE stats'[x].weight = stats[x].weight]_vars

\* C15: an answer posted for an open session: a wrong answer ends the
\* session as failed and reports score = the correct answers accrued before
\* it and required = the question's required_correct; a correct answer
\* ends it as completed-success exactly when the counter reaches required,
\* and otherwise the session stays open.
C15_WrongEndsFailedThresholdEndsSuccess ==
    [][\A ok \in BOOLEAN :
        (/\ SubmitPage(ok)
         /\ ~multiline_sessions[multiline_page.session_id].completed)
        => LET sid      == multiline_page.session_id
               before   == multiline_sessions[sid]
               after    == multiline_sessions'[sid]
               accrued  == Len(before.items_answered)
               required == multiline_questions[before.question_id].required_correct
           IN  IF ~ok
               THEN /\ multiline_response' =
                           Response(200, "json", FALSE, TRUE, accrued, required)
                    /\ after.completed
                    /\ after.consecutive_correct = accrued
               ELSE IF accrued + 1 = required
               THEN /\ multiline_response' =
                           Response(200, "json", TRUE, TRUE, required, required)
                    /\ after.completed
               ELSE /\ multiline_response' =
                           Response(200, "json", TRUE, FALSE, accrued + 1, required)
                    /\ ~after.completed]_vars

\* C15 witness: on the list of 6 items (required 5) two correct answers
\* and a wrong third one: the session is completed and the response is
\* failed with score 2, required 5.
C15_Witness ==
    /\ multiline_response = Response(200, "json", FALSE, TRUE, 2, 5)
    /\ \E k \in DOMAIN multiline_sessions :
        /\ multiline_sessions[k].completed
        /\ Len(multiline_sessions[k].items_answered) = 3
        /\ multiline_sessions[k].consecutive_correct = 2
        /\ multiline_questions[multiline_sessions[k].question_id].total_items = 6

\* The threshold of a list of n items as the specification states it: n up
\* to 5 items, else the integer nearest to 0.8 * n.
NearestToEightyPercent(n) ==
    IF n <= 5 THEN n
    ELSE CHOOSE r \in 0..n : 10 * r - 8 * n <= 5 /\ 8 * n - 10 * r <= 5

C17_CompletedSessionIsFinal ==
    [][/\ \A k \in DOMAIN multiline_sessions :
              multiline_sessions[k].completed => multiline_sessions'[k].completed
       /\ \A ok \in BOOLEAN :
              (/\ SubmitPage(ok)
               /\ multiline_sessions[multiline_page.session_id].completed)
              => /\ multiline_sessions'[multiline_page.session_id] =
                        multiline_sessions[multiline_page.session_id]
                 /\ ~(multiline_response'.completed /\ multiline_response'.is_correct)]_vars

\* No id occurs twice in a list.
NoDuplicates(list) ==
    \A i, j \in DOMAIN list : list[i] = list[j] => i = j

C19_ScoredWhenLastPartResolves ==
    [][\A g \in GeographyIds, ok \in BOOLEAN :
        record_geography_answer(g, 1, ok) =>
            UNCHANGED <<geography_attempts, geography_stats>>]_vars

\* C20: when no call of update_question_stats is in progress, every
\* returned call has logged one attempt and is counted once: per question
\* times_answered is the number of its attempts and times_correct the
\* number of its correct attempts, also for calls that ran concurrently on
\* the same question.
C20_NoLostUpdate ==
    (\A t \in Threads : call[t].pc = "idle") =>
        /\ \A q \in questions :
            /\ stats[q].times_answered = Len(attempts[q])
            /\ stats[q].times_correct =
                   Cardinality({i \in DOMAIN attempts[q] : attempts[q][i].ok})
        /\ TotalAttempts = requests.returned
        /\ SumOver(questions, [q \in questions |-> stats[q].times_correct])
               = requests.returned_correct

\* C20 witness: two calls on the same question were in progress at the
\* same time and both returned: the question has 2 attempts.
C20_Witness ==
    /\ \A t \in Threads : call[t].pc = "idle"
    /\ requests.overlapped
    /\ requests.begun = 2
    /\ requests.returned = 2
    /\ \E q \in questions : Len(attempts[q]) = 2 /\ stats[q].times_answered = 2

Windows ==
    {rr \in [correct : 0..RECENT_ATTEMPTS_WINDOW, total : 0..RECENT_ATTEMPTS_WINDOW] :
        rr.correct <= rr.total}

\* The arguments calculate_weight is called with: the log holds at least
\* as many rows as the counter times_answered counts.
WeightInputs ==
    {in \in [times_answered : 0..(ToolsMaxLogLen + 1), rr : Windows] :
        in.rr.total >= Min(in.times_answered, RECENT_ATTEMPTS_WINDOW)}

\* The rate of window a is at most the rate of window b.
RateAtMost(a, b) ==
    IF a.total = 0 THEN TRUE
    ELSE IF b.total = 0 THEN a.correct = 0
    ELSE a.correct * b.total <= b.correct * a.total

\* calculate_weight on every argument of WeightInputs: 25.0 below 3
\* attempts, else min(base * confidence_multiplier, cap), positive, at most
\* the cap, and not larger for a larger rolling rate of equal confidence.
PolicyAOnInputs ==
    \A in \in WeightInputs :
        LET w == calculate_weight(in.times_answered, in.rr)
        IN  /\ in.times_answered < 3 => w = 25000000
            /\ in.times_answered >= 3 =>
                   /\ w = Min((BaseWeight(in.rr)
                                  * (6 + 5 * (3 - Min(in.rr.total, 3)))) \div 6,
                              WEIGHT_CAP)
                   /\ w > 0
                   /\ w <= WEIGHT_CAP
                   /\ \A other \in WeightInputs :
                          (/\ other.times_answered >= 3
                           /\ Min(other.rr.total, 3) = Min(in.rr.total, 3)
                           /\ RateAtMost(in.rr, other.rr))
                          => calculate_weight(other.times_answered, other.rr) <= w

\* C22: Policy A gives exactly 25.0 below 3 lifetime attempts and
\* min(base * confidence_multiplier, cap) from 3 attempts on, which is
\* positive, at most the cap and non-increasing in the rolling rate; the
\* arguments of every call are in WeightInputs; and 3 simulated correct
\* answers take a never-answered item from 25.0 to a weight between 0.9
\* and 1.1 and make it mastered.
C22_PolicyA ==
    [][/\ PolicyAOnInputs
       /\ \A q \in questions' :
              [times_answered |-> stats'[q].times_answered,
               rr |-> RollingOf(attempts'[q])] \in WeightInputs
       /\ \A n \in SimulatedQuestions, q \in questions :
              (/\ simulate_correct_answers(n, 3)
               /\ q \in FirstQuestions(n)
               /\ attempts[q] = <<>>
               /\ stats[q].weight = 25000000)
              => /\ stats'[q].weight > 900000
                 /\ stats'[q].weight < 1100000
                 /\ MasteredOf(attempts'[q])]_vars

\* C22 witness: a question holds three simulated correct answers, the
\* weight 1.0178 and is mastered.
C22_Witness ==
    \E q \in questions :
        /\ Len(attempts[q]) = 3
        /\ \A i \in 1..3 : attempts[q][i].ok
        /\ stats[q].times_answered = 3
        /\ stats[q].weight = 1017800
        /\ is_question_mastered(q)

\* C23: among the arguments calculate_weight is called with for a question
\* of the database there is an item past the 3-attempt threshold with
\* confidence below 1 whose weight is larger than that of an item of the
\* same rolling rate with full confidence.
C23_ThinSampleInflates ==
    \E question_id \in questions, thin, full \in WeightInputs :
        /\ thin.times_answered >= 3
        /\ full.times_answered >= 3
        /\ ConfidenceThirds(thin.rr) < 3
        /\ ConfidenceThirds(full.rr) = 3
        /\ RateAtMost(thin.rr, full.rr)
        /\ RateAtMost(full.rr, thin.rr)
        /\ calculate_weight(thin.times_answered, thin.rr)
               > calculate_weight(full.times_answered, full.rr)

\* C24: calculate_weight of weight_calculator.py and calculate_weight of
\* recalculate_weights.py return the same weight for every question's
\* counter and attempts.
C24_SameWeightInBothFiles ==
    \A q \in questions :
        calculate_weight(stats[q].times_answered, get_rolling_success_rate(q))
            = recalculate_weights_calculate_weight(stats[q].times_answered,
                                                   get_rolling_success_rate(q))

\* C25: an answer recorded for item x with outcome ok appends exactly one
\* row (x, ok) to the log of x, after every earlier row and with no earlier
\* row of a later timestamp, and changes or removes no earlier row of any
\* item.
C25_LogAppendOnly ==
    [][\A x \in Items, ok \in BOOLEAN :
        record_answer(x, ok) =>
            /\ Len(attempts'[x]) = Len(attempts[x]) + 1
            /\ attempts'[x][Len(attempts'[x])].ok = ok
            /\ \A i \in DOMAIN attempts[x] :
                   /\ attempts'[x][i] = attempts[x][i]
                   /\ attempts[x][i].ts <= attempts'[x][Len(attempts'[x])].ts
            /\ \A q \in questions \ {x} : attempts'[q] = attempts[q]
            /\ DOMAIN attempts' = DOMAIN attempts]_vars

\* C25 witness: one question holds six rows, a wrong answer first and a
\* correct one last, recorded in two different seconds.
C25_Witness ==
    \E q \in questions :
        /\ Len(attempts[q]) = 6
        /\ ~attempts[q][1].ok
        /\ attempts[q][6].ok
        /\ attempts[q][1].ts < attempts[q][6].ts

\* C26: the weight of an item decreases only in the step that records a
\* correct answer to that item: answers to other items and incorrect
\* answers to the item leave it equal or larger.
C26_WeightDecreasesOnlyOnOwnCorrect ==
    [][\A x \in questions \cap questions' :
        /\ stats'[x].weight < stats[x].weight => record_answer(x, TRUE)
        /\ \A y \in Items, ok \in BOOLEAN :
               (record_answer(y, ok) /\ (y # x \/ ~ok))
               => stats'[x].weight >= stats[x].weight]_vars

\* C26 witness: an item was answered correctly (weight 0.0), then
\* incorrectly, and two correct answers to a sibling have raised its weight
\* to 0.2.
C26_Witness ==
    \E x, y \in questions :
        /\ x # y
        /\ Len(attempts[x]) = 2
        /\ attempts[x][1].ok
        /\ ~attempts[x][2].ok
        /\ Len(attempts[y]) = 2
        /\ stats[x].weight = 200000

\* C27: whatever the earlier attempts, an item whose 4 most recently
\* recorded answers are correct is mastered, and an item whose 2 most
\* recently recorded answers are incorrect is not mastered.
C27_StreaksDecideMastery ==
    \A q \in questions :
        LET log == attempts[q]
            n   == Len(log)
        IN  /\ (n >= 4 /\ \A i \in (n - 3)..n : log[i].ok) => is_question_mastered(q)
            /\ (n >= 2 /\ \A i \in (n - 1)..n : ~log[i].ok) => ~is_question_mastered(q)

\* C28: every question a next-item request can return, for either draw,
\* is of a chunk <= the max_unlocked_chunk the request leaves in
\* user_progress after its unlock evaluation; a question of a chunk that is
\* still locked then is never returned.
C28_NeverFromLockedChunk ==
    \A r \in Draws :
        \A d \in QuizResults(r) :
            /\ d \in questions
            /\ chunk_number[d] <= ProgressAfterQuiz.max_unlocked_chunk

\* C28 witness: chunk 2 is locked, every question of chunk 1 is mastered,
\* and the request that unlocks chunk 2 can return its question.
C28_Witness ==
    /\ progress.max_unlocked_chunk = 1
    /\ ProgressAfterQuiz.max_unlocked_chunk = 2
    /\ \E r \in Draws, d \in questions :
        /\ chunk_number[d] = 2
        /\ d \in QuizResults(r)
        /\ ENABLED quiz(r, d)

\* The chunks of the import.
ImportedChunks == {chunk_number[q] : q \in DOMAIN chunk_number}

\* C29: a delete request for the only question of its chunk or for an
\* unknown id is rejected and changes no table; an accepted one removes the
\* question, its statistics row and its attempts and nothing else; and
\* after every step each chunk of the import still holds a question.
C29_DeleteNeverEmptiesChunk ==
    [][/\ \A id \in Items :
              delete_question(id) =>
                  IF id \notin questions
                     \/ Cardinality({q \in questions : chunk_number[q] = chunk_number[id]}) = 1
                  THEN /\ delete_question_status(id) \in {400, 404}
                       /\ UNCHANGED <<questions, stats, attempts>>
                  ELSE /\ delete_question_status(id) = 200
                       /\ questions' = questions \ {id}
                       /\ DOMAIN stats' = questions'
                       /\ DOMAIN attempts' = questions'
                       /\ \A q \in questions' :
                              stats'[q] = stats[q] /\ attempts'[q] = attempts[q]
       /\ \A c \in ImportedChunks : \E q \in questions' : chunk_number[q] = c]_vars

\* C29 witness: a question that had been answered was deleted, and the
\* remaining question of its chunk, answered as well, is the last one.
C29_Witness ==
    \E gone \in DOMAIN chunk_number \ questions, q \in questions :
        /\ chunk_number[q] = chunk_number[gone]
        /\ Len(attempts[q]) > 0
        /\ delete_question_status(q) = 400
        /\ delete_question_status(gone) = 404

\* C30: reset_progress leaves user_progress at (1, 10), keeps the
\* questions, and leaves every question as the import left it: counters 0,
\* the import weight, rolling rate (0.0, 0), not mastered for the selector
\* (the predicate on the log) nor for the sibling update (the stored flag).
C30_ResetRestoresImportState ==
    [][reset_progress =>
        /\ progress' = [max_unlocked_chunk |-> 1, questions_in_current_set |-> 10]
        /\ questions' = questions
        /\ \A q \in questions :
               /\ stats'[q].times_answered = 0
               /\ stats'[q].times_correct = 0
               /\ stats'[q].weight = INITIAL_WEIGHT
               /\ ~stats'[q].is_mastered
               /\ RollingOf(attempts'[q]) = [correct |-> 0, total |-> 0]
               /\ ~MasteredOf(attempts'[q])]_vars

\* C32: after any sequence of recorded answers, starting from the import
\* (no attempt, stored flag false), the is_mastered column of every
\* question equals is_question_mastered computed from its attempts.
C32_StoredFlagIsLivePredicate ==
    \A q \in questions : stats[q].is_mastered = is_question_mastered(q)

\* C32 witness: a question was mastered after three correct answers, was
\* stored as mastered after a fourth, and two incorrect answers later both
\* the stored flag and the predicate are false.
C32_Witness ==
    \E q \in questions :
        /\ Len(attempts[q]) = 6
        /\ \A i \in 1..4 : attempts[q][i].ok
        /\ \A i \in 5..6 : ~attempts[q][i].ok
        /\ attempts[q][1].ts < attempts[q][2].ts
        /\ ~stats[q].is_mastered
        /\ ~is_question_mastered(q)

\* C33: in every state reached by recording answers, times_answered of a
\* question is the number of its rows in question_attempts, times_correct
\* the number of its correct rows, and times_correct <= times_answered.
C33_CountersAgreeWithLog ==
    \A q \in questions :
        /\ stats[q].times_answered = Len(attempts[q])
        /\ stats[q].times_correct =
               Cardinality({i \in DOMAIN attempts[q] : attempts[q][i].ok})
        /\ stats[q].times_correct <= stats[q].times_answered

\* C33 witness: two questions have been answered, one of them both
\* correctly and incorrectly, five answers in all.
C33_Witness ==
    \E q, s \in questions :
        /\ q # s
        /\ stats[q].times_answered = 3
        /\ stats[q].times_correct = 1
        /\ stats[s].times_answered = 2
        /\ stats[s].times_correct = 2

\* C34: for every question, the qualification of the unlock check
\* (times_answered >= 3 and rolling rate >= 0.8) holds exactly when
\* is_question_mastered holds (3 or more rows in the window and rolling
\* rate >= 0.8), so mastered_count is the number of questions of the
\* unlocked chunks that are mastered.
C34_QualificationIsMastery ==
    /\ \A q \in questions :
           (q \in QualifiedQuestions(chunk_number[q])) = is_question_mastered(q)
    /\ Cardinality(QualifiedQuestions(progress.max_unlocked_chunk)) =
           Cardinality({q \in UnlockedPool(progress.max_unlocked_chunk) :
                            is_question_mastered(q)})

\* C35: a correct answer recorded for question x leaves the weight of
\* every question stored in the other mastery category and of every
\* question of a locked chunk unchanged, and the counters, the stored
\* mastery flag and the attempts of every question other than x; the
\* category whose questions are incremented is the mastery of x computed
\* with the new attempt included.
C35_CorrectAnswerFrame ==
    [][\A x \in Items :
        record_answer(x, TRUE) =>
            LET category == MasteredOf(attempts'[x])
            IN  \A s \in questions \ {x} :
                    /\ stats'[s].times_answered = stats[s].times_answered
                    /\ stats'[s].times_correct = stats[s].times_correct
                    /\ stats'[s].is_mastered = stats[s].is_mastered
                    /\ attempts'[s] = attempts[s]
                    /\ IF /\ stats[s].is_mastered = category
                          /\ chunk_number[s] <= progress.max_unlocked_chunk
                       THEN stats'[s].weight = stats[s].weight + WEIGHT_INCREMENT
                       ELSE stats'[s].weight = stats[s].weight]_vars

\* C35 witness: the third correct answer to a question made it mastered,
\* its unmastered sibling of chunk 1 received only the two earlier
\* increments, and the question of the locked chunk 2 none.
C35_Witness ==
    \E x, s, l \in questions :
        /\ Len(attempts[x]) = 3
        /\ stats[x].is_mastered
        /\ stats[x].weight = 0
        /\ chunk_number[s] = 1
        /\ s # x
        /\ ~stats[s].is_mastered
        /\ stats[s].weight = INITIAL_WEIGHT + 2 * WEIGHT_INCREMENT
        /\ chunk_number[l] > progress.max_unlocked_chunk
        /\ stats[l].weight = INITIAL_WEIGHT

\* C36: a next-item request never returns a question of weight 0 while
\* another candidate of the bucket it selects from has a positive weight.
C36_ZeroWeightRests ==
    \A r \in Draws :
        \A q \in QuizResults(r) :
            stats[q].weight = 0 => \A p \in ChosenBucket(r) : stats[p].weight = 0

\* C36 witness: after an earlier request, the chosen bucket holds a
\* question of weight 0 that is not the excluded one and a question of
\* positive weight, and only questions of positive weight can be returned.
C36_Witness ==
    /\ prev_question_id # None
    /\ \E r \in Draws :
        /\ \E z, p \in ChosenBucket(r) : stats[z].weight = 0 /\ stats[p].weight > 0
        /\ QuizResults(r) # {}
        /\ \A q \in QuizResults(r) : stats[q].weight > 0

\* C37: one next-item request (GET /) raises max_unlocked_chunk by at most
\* 1, whatever the questions of the chunk it unlocks have been answered.
C37_OneRequestOneChunk ==
    [][\A r \in Draws, question_data \in Items \cup {None} :
        quiz(r, question_data) =>
            progress'.max_unlocked_chunk <= progress.max_unlocked_chunk + 1]_vars

\* C38: when every shown question is answered correctly and every answer
\* is recorded, and the random choices are fair, max_unlocked_chunk
\* eventually equals the highest chunk of the content (or the learner has
\* given LearnerMaxAnswers answers).
C38_EveryChunkEventuallyUnlocked ==
    <>(\/ progress.max_unlocked_chunk = get_total_chunks
       \/ TotalAttempts >= LearnerMaxAnswers)

\* C39: in every multiline session that is not completed, with answers
\* posted from the pages shown, consecutive_correct equals the number of
\* ids in items_answered and is less than required_correct of the
\* session's question.
C39_OpenSessionCounter ==
    \A k \in DOMAIN multiline_sessions :
        LET session == multiline_sessions[k]
        IN  ~session.completed =>
                /\ session.consecutive_correct = Len(session.items_answered)
                /\ session.consecutive_correct <
                       multiline_questions[session.question_id].required_correct

\* C39 witness: on the list of 6 items (required 5) four items were
\* answered correctly and the session is still open with counter 4.
C39_Witness ==
    \E k \in DOMAIN multiline_sessions :
        /\ ~multiline_sessions[k].completed
        /\ multiline_sessions[k].consecutive_correct = 4
        /\ Cardinality(Range(multiline_sessions[k].items_answered)) = 4
        /\ multiline_questions[multiline_sessions[k].question_id].required_correct = 5

\* C31: when a correct answer credits the list of pueblos of a mode 2
\* page, every credited pueblo has weight 0.0 after update_pueblos_stats,
\* and every other pueblo stored in the mastery category of a credited
\* pueblo has a larger weight than before.
C31_AllCreditedPueblosReset ==
    [][(record_pueblos_answer(TRUE) /\ pueblos_page.mode = 2) =>
        LET credited == Range(ParseIds(pueblos_page.correct_pueblo_ids))
        IN  /\ \A p \in credited : pueblos_stats'[p].weight = 0
            /\ \A q \in PuebloIds \ credited :
                   (\E p \in credited :
                        pueblos_stats[q].is_mastered =
                            is_pueblo_mastered(pueblos_attempts'[p]))
                   => pueblos_stats'[q].weight > pueblos_stats[q].weight]_vars

\* C40: the pueblo the selector chose for a page, which the session
\* remembers as prev_pueblo_id, receives an attempt and a statistics
\* update when the answer of that page is recorded, in mode 1 and mode 2.
C40_SelectedPuebloIsCredited ==
    [][\A is_correct \in BOOLEAN :
        record_pueblos_answer(is_correct) =>
            /\ pueblos_page.pueblo_id = prev_pueblo_id
            /\ Len(pueblos_attempts'[prev_pueblo_id]) =
                   Len(pueblos_attempts[prev_pueblo_id]) + 1
            /\ pueblos_stats'[prev_pueblo_id].times_answered =
                   pueblos_stats[prev_pueblo_id].times_answered + 1]_vars

=============================================================================
